---- MODULE Spec2Model ----
(***************************************************************************)
(* A model of the decades-ppandas post-processing modules (ppodd.pod) and  *)
(* of the helpers in ppodd.utils.utils.                                    *)
(*                                                                         *)
(* A processing module is an object bound to a dataset.  Its state is      *)
(*   dataset       the flight dataset: its constants table and its time    *)
(*                 series (variables), each a mapping from a name          *)
(*   d             the module's working dataframe (self.d), column -> seq   *)
(*   declarations  the outputs registered by declare_outputs               *)
(*   outputs       the variables handed to add_output, in order            *)
(*   pc            the position of the module / function under study       *)
(*   args, ret     arguments and return value of a module-level function   *)
(*                                                                         *)
(* Floating point series are modelled as sequences of integers in a fixed  *)
(* unit that is stated where the series is introduced; the undefined       *)
(* value (np.nan) is the integer NaN, which no data value equals.          *)
(***************************************************************************)
EXTENDS Integers, Sequences, FiniteSets, TLC

VARIABLES dataset, d, declarations, outputs, pc, args, ret

vars == <<dataset, d, declarations, outputs, pc, args, ret>>

\* np.nan: the undefined sample.  Every comparison with it is False, except !=.
NaN == -99999

IsNaN(x) == x = NaN

\* np.inf and -np.inf, the results of a float division of a non-zero number
\* by zero; they order above and below every finite number
Inf == 2147483647
NegInf == -Inf

IsInf(x) == x = Inf \/ x = NegInf

\* np.isfinite
IsFinite(x) == ~IsNaN(x) /\ ~IsInf(x)

Sign(x) == IF x > 0 THEN 1 ELSE IF x < 0 THEN -1 ELSE 0

\* the infinity of a sign
SignedInf(s) == IF s > 0 THEN Inf ELSE NegInf

\* a value that stands for "no object" in a variable a specification leaves unused
None == <<>>

Max(a, b) == IF a >= b THEN a ELSE b
Min(a, b) == IF a <= b THEN a ELSE b

SetMax(S) == CHOOSE x \in S : \A y \in S : y <= x
SetMin(S) == CHOOSE x \in S : \A y \in S : x <= y

(***************************************************************************)
(* ppodd/pod/p_nevzorov.py : get_no_cloud_mask                              *)
(*                                                                         *)
(* Collector power is in units of 0.05 W, so that a peak-to-peak range of  *)
(* 1 unit (0.05 W) lies inside range_limits and ranges of 0 and of 2 units *)
(* (0.1 W) lie outside.                                                    *)
(***************************************************************************)

\* range_limits = (1E-12, 0.1): 1e-12 W is below one unit, 0.1 W is 2 units
RangeLimitLo == 0
RangeLimitHi == 2

\* np.ptp(arr) on the raw window values
Ptp(S) == SetMax(S) - SetMin(S)

\* _roll_fn: range_limits[0] < _range < range_limits[1], as 1.0 / 0.0
RollFn(S) == IF RangeLimitLo < Ptp(S) /\ Ptp(S) < RangeLimitHi THEN 1 ELSE 0

\* pandas fixed window bounds with center=True: offset = (window - 1) // 2,
\* the window of (1-based) sample i is i + 1 + offset - window .. i + offset
RollOffset(window) == (window - 1) \div 2

RollLo(i, window) == i + 1 + RollOffset(window) - window
RollHi(i, window) == i + RollOffset(window)

\* Series.rolling(window, center=True).apply(_roll_fn, raw=True): min_periods
\* is the window size, so a window that leaves the series or holds a NaN
\* gives NaN
Rolling(series, window) ==
    [i \in 1..Len(series) |->
        IF RollLo(i, window) < 1 \/ RollHi(i, window) > Len(series)
        THEN NaN
        ELSE LET w == {series[j] : j \in RollLo(i, window)..RollHi(i, window)}
             IN IF NaN \in w THEN NaN ELSE RollFn(w)]

\* 1 | np.isnan(wow): "|" binds tighter than "==", so the scalar 1 is or-ed
\* with the boolean series first; the result is True at every sample
OneOr(b) == TRUE \/ b

\* a float sample compared (==) with a boolean: True is 1, NaN equals nothing
EqBool(x, b) == IF IsNaN(x) THEN FALSE ELSE x = (IF b THEN 1 ELSE 0)

\* the row selector of line 54: wow == 1 | np.isnan(wow), parsed by Python
\* as wow == (1 | np.isnan(wow))
GroundSel(wow) == [i \in 1..Len(wow) |-> EqBool(wow[i], OneOr(IsNaN(wow[i])))]

\* mask.loc[wow == 1 | np.isnan(wow)] = 0
ZeroGround(mask, wow) ==
    [i \in 1..Len(mask) |-> IF GroundSel(wow)[i] THEN 0 ELSE mask[i]]

\* mask != mask.shift() at sample i: True at the first sample, where the
\* value changes, and at every NaN (NaN != NaN)
Changed(mask, i) ==
    i = 1 \/ IsNaN(mask[i]) \/ IsNaN(mask[i - 1]) \/ mask[i] # mask[i - 1]

\* (mask != mask.shift()).cumsum(): the group number of every sample
MaskGroups(mask) ==
    [i \in 1..Len(mask) |-> Cardinality({j \in 1..i : Changed(mask, j)})]

\* mask.loc[mask_groups == group].sum(): NaN is skipped, and the mask holds
\* 0 and 1 only, so the sum is the number of 1s of the group
GroupSum(mask, groups, group) ==
    Cardinality({i \in 1..Len(mask) : groups[i] = group /\ mask[i] = 1})

\* (mutant of TooShort: a run of exactly the minimum length is rejected too)
TooShortOffByOne(total, minimum) == total <= minimum

\* the comparison of line 59 that sends a group back to 0
TooShort(total, minimum) == total < minimum

\* lines 57-60: every group whose sum is below min_period * freq is set to 0
\* (the groups are those of the mask before the loop)
FilterRuns(mask, minimum) ==
    LET groups == MaskGroups(mask)
    IN [i \in 1..Len(mask) |->
            IF TooShort(GroupSum(mask, groups, groups[i]), minimum) THEN 0 ELSE mask[i]]

\* get_no_cloud_mask(twc_col_p, wow, window_secs, min_period, freq)
GetNoCloudMask(twc_col_p, wow, window_secs, min_period, freq) ==
    FilterRuns(ZeroGround(Rolling(twc_col_p, freq * window_secs), wow),
               min_period * freq)

\* ---- the inputs of the clear-air specification
CloudLen == 5
TwcValues == {0, 1, 2}
WowValues == {0, 1, NaN}
WindowSecsValues == {2}
MinPeriodValues == {2, 3}
FreqValues == {1}

InitCloud ==
    /\ pc = "cloud_start"
    /\ args \in [twc_col_p : [1..CloudLen -> TwcValues],
                 wow : [1..CloudLen -> WowValues],
                 window_secs : WindowSecsValues,
                 min_period : MinPeriodValues,
                 freq : FreqValues]
    /\ ret = None
    /\ dataset = None /\ d = None /\ declarations = None /\ outputs = None

CallGetNoCloudMask ==
    /\ pc = "cloud_start"
    /\ ret' = GetNoCloudMask(args.twc_col_p, args.wow, args.window_secs,
                              args.min_period, args.freq)
    /\ pc' = "cloud_done"
    /\ UNCHANGED <<dataset, d, declarations, outputs, args>>

NextCloud == CallGetNoCloudMask

SpecCloud == InitCloud /\ [][NextCloud]_vars

\* ---- claims about get_no_cloud_mask

\* the rolling-range mask after the ground samples are zeroed (line 54),
\* before the run-length filter
PreFilterMask ==
    ZeroGround(Rolling(args.twc_col_p, args.freq * args.window_secs), args.wow)

\* a..b is a maximal run of 1s of the series m
IsMaximalRun(m, a, b) ==
    /\ a <= b
    /\ \A i \in a..b : m[i] = 1
    /\ (a = 1 \/ m[a - 1] # 1)
    /\ (b = Len(m) \/ m[b + 1] # 1)

\* C1: every maximal run of 1s of the pre-filter mask that is shorter than
\* min_period * freq is returned as all 0, every run of at least that length
\* is returned unchanged, and the returned mask holds no run of 1s shorter
\* than min_period * freq.
C1_RunLengthFilter ==
    pc = "cloud_done" =>
        LET pre == PreFilterMask
            minimum == args.min_period * args.freq
        IN /\ \A a, b \in 1..CloudLen :
                IsMaximalRun(pre, a, b) =>
                    /\ (b - a + 1 < minimum => \A i \in a..b : ret[i] = 0)
                    /\ (b - a + 1 >= minimum => \A i \in a..b : ret[i] = 1)
           /\ \A a, b \in 1..CloudLen :
                IsMaximalRun(ret, a, b) => b - a + 1 >= minimum

\* a returned mask in which one run was rejected and another one kept
C1_Witness ==
    /\ pc = "cloud_done"
    /\ \E a, b \in 1..CloudLen :
        /\ IsMaximalRun(PreFilterMask, a, b)
        /\ b - a + 1 < args.min_period * args.freq
        /\ \A i \in a..b : ret[i] = 0
    /\ \E a, b \in 1..CloudLen :
        /\ IsMaximalRun(PreFilterMask, a, b)
        /\ b - a + 1 >= args.min_period * args.freq
        /\ \A i \in a..b : ret[i] = 1

\* C2: the returned mask is 0 at every sample where wow is 1 or undefined.
C2_GroundOrUndefinedIsZero ==
    pc = "cloud_done" =>
        \A i \in 1..CloudLen : (args.wow[i] = 1 \/ IsNaN(args.wow[i])) => ret[i] = 0

(***************************************************************************)
(* Shared pieces of a processing module (ppodd.pod.base.PPBase and         *)
(* ppodd.decades, which the modules call)                                  *)
(***************************************************************************)

\* DecadesVariable(series, name=..., flag=...): a variable is written unless
\* its write attribute is cleared; add_flag / flag.add_mask attach series
DecadesVariable(name, data) ==
    [name |-> name, data |-> data, write |-> TRUE, flags |-> <<>>, masks |-> <<>>]

\* var.add_flag(series)
AddFlag(var, series) == [var EXCEPT !.flags = Append(@, series)]

\* var.flag.add_mask(series, label)
AddMask(var, series, label) ==
    [var EXCEPT !.masks = Append(@, [label |-> label, mask |-> series])]

\* self.add_output(var): the variable joins the module's outputs
AddOutput(outs, var) == Append(outs, var)

\* a mapping with one key set (dict[key] = value, frame[col] = series)
Put(f, key, value) == (key :> value) @@ f

\* self.declare(name, units=..., frequency=..., ...): the declaration is
\* registered under the name of the output
Declare(decls, name, units, frequency) ==
    Put(decls, name, [units |-> units, frequency |-> frequency])

\* an empty mapping with string keys
NoDeclarations == [n \in {} |-> None]

\* the series registered under a label on a variable
MaskOf(var, label) ==
    (CHOOSE m \in {var.masks[k] : k \in 1..Len(var.masks)} : m.label = label).mask

(***************************************************************************)
(* ppodd/pod/p_tei_ozone.py : TeiOzone                                     *)
(*                                                                         *)
(* Concentration is in ppb, the flows are in tenths (FLOW_THRESHOLD 0.5 is *)
(* 5).  The status column holds strings; a missing status is NaNStr.       *)
(***************************************************************************)

FLOW_THRESHOLD == 5
CONC_THRESHOLD == -10

\* a missing entry of the (object) status column
NaNStr == "nan"

\* str.lower() on the status strings of the model
Lower(str) ==
    CASE str = "1C100000" -> "1c100000"
      [] str = "0C100000" -> "0c100000"
      [] str = "1C100004" -> "1c100004"
      [] OTHER -> str

\* d['TEIOZO_flag'].fillna(value='', inplace=True)
FillNaStr(col) == [i \in 1..Len(col) |-> IF col[i] = NaNStr THEN "" ELSE col[i]]

\* flag = np.array([i.lower() for i in d['TEIOZO_flag']]); flag[flag == ''] = 3
\* (the array holds strings, so 3 is stored as '3')
StatusArray(col) ==
    [i \in 1..Len(col) |-> IF Lower(col[i]) = "" THEN "3" ELSE Lower(col[i])]

\* '<code>' in flag
InArray(code, flag) == \E i \in 1..Len(flag) : flag[i] = code

\* lines 37-38 and 48-52: STATUS_FLAGn starts as the scalar 0 and is replaced
\* by flag != '<code>' only if the code occurs somewhere in the flight
StatusFlagN(flag, code) ==
    [i \in 1..Len(flag) |->
        IF InArray(code, flag) THEN (IF flag[i] # code THEN 1 ELSE 0) ELSE 0]

\* d.STATUS_FLAG = d.STATUS_FLAG1 | d.STATUS_FLAG2
SeriesOr(a, b) == [i \in 1..Len(a) |-> IF a[i] = 1 \/ b[i] = 1 THEN 1 ELSE 0]

\* a float sample below a threshold; NaN is below nothing
Below(x, thr) == ~IsNaN(x) /\ x < thr

\* d.loc[d[col] < threshold, flagcol] = 1 on a flag column that is 0
FlagWhereBelow(flagcol, col, thr) ==
    [i \in 1..Len(col) |-> IF Below(col[i], thr) THEN 1 ELSE flagcol[i]]

Zeros(n) == [i \in 1..n |-> 0]

\* the value line 58 stores in a row of a column: the number 1, which is 10
\* in the tenths of the flow columns (the string "1" stands for it in the
\* status column, which holds strings in the model)
RowFill(colname) ==
    CASE colname = "TEIOZO_flag" -> "1"
      [] colname \in {"TEIOZO_FlowA", "TEIOZO_FlowB"} -> 10
      [] OTHER -> 1

\* d.loc[d['TEIOZO_FlowB'] < FLOW_THRESHOLD] = 1: no column is named, so
\* every column of the selected rows is set to 1
SetRowsWhereFlowB(frame) ==
    [c \in DOMAIN frame |->
        [i \in 1..Len(frame[c]) |->
            IF Below(frame.TEIOZO_FlowB[i], FLOW_THRESHOLD)
            THEN RowFill(c) ELSE frame[c][i]]]

\* d.loc[d['WOW_IND'] != 0, 'WOW_FLAG'] = 1  (NaN != 0 is True)
FlagWow(frame) ==
    [frame EXCEPT !.WOW_FLAG =
        [i \in 1..Len(frame.WOW_IND) |->
            IF frame.WOW_IND[i] # 0 THEN 1 ELSE frame.WOW_FLAG[i]]]

\* PPBase.get_dataframe(): the module's inputs, all at 1 Hz here, as the
\* columns of the working frame
OzoneGetDataframe(ds) ==
    [TEIOZO_conc |-> ds.variables.TEIOZO_conc,
     TEIOZO_flag |-> ds.variables.TEIOZO_flag,
     TEIOZO_FlowA |-> ds.variables.TEIOZO_FlowA,
     TEIOZO_FlowB |-> ds.variables.TEIOZO_FlowB,
     WOW_IND |-> ds.variables.WOW_IND]

\* TeiOzone.flag, lines 36-56: the flag columns up to the FlowA test
OzoneFlagColumns(frame) ==
    LET n     == Len(frame.TEIOZO_conc)
        filled == FillNaStr(frame.TEIOZO_flag)
        flag  == StatusArray(filled)
        sf1   == StatusFlagN(flag, "1c100000")
        sf2   == StatusFlagN(flag, "0c100000")
    IN [TEIOZO_conc |-> frame.TEIOZO_conc,
        TEIOZO_flag |-> filled,
        TEIOZO_FlowA |-> frame.TEIOZO_FlowA,
        TEIOZO_FlowB |-> frame.TEIOZO_FlowB,
        WOW_IND |-> frame.WOW_IND,
        STATUS_FLAG |-> SeriesOr(sf1, sf2),
        STATUS_FLAG1 |-> sf1,
        STATUS_FLAG2 |-> sf2,
        CONC_FLAG |-> FlagWhereBelow(Zeros(n), frame.TEIOZO_conc, CONC_THRESHOLD),
        FLOW_FLAG |-> FlagWhereBelow(Zeros(n), frame.TEIOZO_FlowA, FLOW_THRESHOLD),
        WOW_FLAG |-> Zeros(n)]

\* TeiOzone.flag
OzoneFlag(frame) == FlagWow(SetRowsWhereFlowB(OzoneFlagColumns(frame)))

\* TeiOzone.declare_outputs
OzoneDeclare(decls) == Declare(decls, "O3_TECO", "ppb", 1)

\* TeiOzone.process, lines 66-72: the output variable and its four masks
OzoneVariable(frame) ==
    AddMask(AddMask(AddMask(AddMask(
        DecadesVariable("O3_TECO", frame.TEIOZO_conc),
        frame.STATUS_FLAG, "instrument_alarm"),
        frame.CONC_FLAG, "conc_out_of_range"),
        frame.FLOW_FLAG, "flow_out_of_range"),
        frame.WOW_FLAG, "flags.WOW")

\* ---- the inputs of the ozone specification
OzoneLen == 2
StatusValues == {"1c100000", "0c100000", "1C100000", "1c100004", NaNStr}
ConcValues == {-11, 1, 40}
FlowValues == {4, 9}
OzoneWowValues == {0, 1}

InitOzone ==
    /\ pc = "ozone_created"
    /\ dataset \in [constants : {<<>>},
                    variables : [TEIOZO_conc : [1..OzoneLen -> ConcValues],
                                 TEIOZO_flag : [1..OzoneLen -> StatusValues],
                                 TEIOZO_FlowA : [1..OzoneLen -> FlowValues],
                                 TEIOZO_FlowB : [1..OzoneLen -> FlowValues],
                                 WOW_IND : [1..OzoneLen -> OzoneWowValues]]]
    /\ d = None /\ declarations = NoDeclarations /\ outputs = <<>>
    /\ args = None /\ ret = None

\* TeiOzone.declare_outputs
TeiOzoneDeclareOutputs ==
    /\ pc = "ozone_created"
    /\ declarations' = OzoneDeclare(declarations)
    /\ pc' = "ozone_declared"
    /\ UNCHANGED <<dataset, d, outputs, args, ret>>

\* TeiOzone.process
TeiOzoneProcess ==
    /\ pc = "ozone_declared"
    /\ d' = OzoneFlag(OzoneGetDataframe(dataset))
    /\ outputs' = AddOutput(outputs, OzoneVariable(d'))
    /\ pc' = "ozone_processed"
    /\ UNCHANGED <<dataset, declarations, args, ret>>

NextOzone == TeiOzoneDeclareOutputs \/ TeiOzoneProcess

SpecOzone == InitOzone /\ [][NextOzone]_vars

\* ---- claims about TeiOzone

NominalCodes == {"1c100000", "0c100000"}

O3 == outputs[1]

\* C4: instrument_alarm is set at a sample exactly when its status, lower
\* cased, is not a nominal code, whatever the other samples hold.
C4_AlarmIffNotNominal ==
    pc = "ozone_processed" =>
        \A i \in 1..OzoneLen :
            (MaskOf(O3, "instrument_alarm")[i] = 1)
                <=> (Lower(dataset.variables.TEIOZO_flag[i]) \notin NominalCodes)

\* C5: the data of O3_TECO is the aligned input concentration at every sample.
C5_ConcPassthrough ==
    pc = "ozone_processed" =>
        \A i \in 1..OzoneLen : O3.data[i] = dataset.variables.TEIOZO_conc[i]

\* C6: each named mask reflects its own condition only.
C6_MasksIndependent ==
    pc = "ozone_processed" =>
        \A i \in 1..OzoneLen :
            /\ (MaskOf(O3, "conc_out_of_range")[i] = 1)
                  <=> Below(dataset.variables.TEIOZO_conc[i], CONC_THRESHOLD)
            /\ (MaskOf(O3, "flags.WOW")[i] = 1) <=> (dataset.variables.WOW_IND[i] # 0)
            /\ (MaskOf(O3, "flow_out_of_range")[i] = 1)
                  <=> (\/ Below(dataset.variables.TEIOZO_FlowA[i], FLOW_THRESHOLD)
                       \/ Below(dataset.variables.TEIOZO_FlowB[i], FLOW_THRESHOLD))

(***************************************************************************)
(* Series arithmetic (pandas / numpy elementwise operations): an undefined *)
(* operand gives an undefined result, and the infinities follow the float  *)
(* rules (inf * 0, inf - inf, inf / inf and 0 / 0 are undefined, x / 0 is  *)
(* the infinity of the sign of x).  Finite quotients are rounded down to a *)
(* whole unit.                                                             *)
(***************************************************************************)
NumMul(x, y) ==
    IF IsNaN(x) \/ IsNaN(y) THEN NaN
    ELSE IF IsInf(x) \/ IsInf(y)
    THEN (IF x = 0 \/ y = 0 THEN NaN ELSE SignedInf(Sign(x) * Sign(y)))
    ELSE x * y

NumAdd(x, y) ==
    IF IsNaN(x) \/ IsNaN(y) THEN NaN
    ELSE IF IsInf(x) THEN (IF IsInf(y) /\ y # x THEN NaN ELSE x)
    ELSE IF IsInf(y) THEN y
    ELSE x + y

NumSub(x, y) == IF IsNaN(y) THEN NaN ELSE NumAdd(x, -y)

\* the divisors of the model are not negative zeros
NumDiv(x, y) ==
    IF IsNaN(x) \/ IsNaN(y) THEN NaN
    ELSE IF IsInf(x)
    THEN (IF IsInf(y) THEN NaN ELSE SignedInf(Sign(x) * (IF y < 0 THEN -1 ELSE 1)))
    ELSE IF IsInf(y) THEN 0
    ELSE IF y = 0 THEN (IF x = 0 THEN NaN ELSE SignedInf(Sign(x)))
    ELSE x \div y

SeriesMul(a, b) == [i \in 1..Len(a) |-> NumMul(a[i], b[i])]
SeriesSub(a, b) == [i \in 1..Len(a) |-> NumSub(a[i], b[i])]
SeriesDiv(a, b) == [i \in 1..Len(a) |-> NumDiv(a[i], b[i])]
SeriesScale(k, a) == [i \in 1..Len(a) |-> NumMul(k, a[i])]
SeriesShift(k, a) == [i \in 1..Len(a) |-> NumAdd(k, a[i])]


(***************************************************************************)
(* ppodd/pod/p_nevzorov.py : Nevzorov                                      *)
(***************************************************************************)

\* Nevzorov.instruments
Instruments(vanetype) ==
    CASE vanetype = "1t1l2r" -> <<"twc", "lwc">>
      [] vanetype = "1t2l1r" -> <<"twc", "lwc1", "lwc2">>

KnownVanes == {"1t1l2r", "1t2l1r"}

\* str.lower() on the vane types of the model
LowerVane(str) ==
    CASE str = "1T1L2R" -> "1t1l2r"
      [] str = "1T2L1R" -> "1t2l1r"
      [] str = "2T2L" -> "2t2l"
      [] OTHER -> str

\* measurements = ('icol', 'vcol', 'iref', 'vref')
Measurements == <<"icol", "vcol", "iref", "vref">>

\* 'CORCON_nv_{ins}_{meas}'.format(ins=ins, meas=meas)
CorconName(ins, meas) ==
    CASE ins = "twc" /\ meas = "icol" -> "CORCON_nv_twc_icol"
      [] ins = "twc" /\ meas = "vcol" -> "CORCON_nv_twc_vcol"
      [] ins = "twc" /\ meas = "iref" -> "CORCON_nv_twc_iref"
      [] ins = "twc" /\ meas = "vref" -> "CORCON_nv_twc_vref"
      [] ins = "lwc" /\ meas = "icol" -> "CORCON_nv_lwc_icol"
      [] ins = "lwc" /\ meas = "vcol" -> "CORCON_nv_lwc_vcol"
      [] ins = "lwc" /\ meas = "iref" -> "CORCON_nv_lwc_iref"
      [] ins = "lwc" /\ meas = "vref" -> "CORCON_nv_lwc_vref"
      [] ins = "lwc1" /\ meas = "icol" -> "CORCON_nv_lwc1_icol"
      [] ins = "lwc1" /\ meas = "vcol" -> "CORCON_nv_lwc1_vcol"
      [] ins = "lwc1" /\ meas = "iref" -> "CORCON_nv_lwc1_iref"
      [] ins = "lwc1" /\ meas = "vref" -> "CORCON_nv_lwc1_vref"
      [] ins = "lwc2" /\ meas = "icol" -> "CORCON_nv_lwc2_icol"
      [] ins = "lwc2" /\ meas = "vcol" -> "CORCON_nv_lwc2_vcol"
      [] ins = "lwc2" /\ meas = "iref" -> "CORCON_nv_lwc2_iref"
      [] ins = "lwc2" /\ meas = "vref" -> "CORCON_nv_lwc2_vref"

\* 'C{ins}{meas}'.format(ins=ins.upper(), meas=meas.upper())
CalName(ins, meas) ==
    CASE ins = "twc" /\ meas = "icol" -> "CTWCICOL"
      [] ins = "twc" /\ meas = "vcol" -> "CTWCVCOL"
      [] ins = "twc" /\ meas = "iref" -> "CTWCIREF"
      [] ins = "twc" /\ meas = "vref" -> "CTWCVREF"
      [] ins = "lwc" /\ meas = "icol" -> "CLWCICOL"
      [] ins = "lwc" /\ meas = "vcol" -> "CLWCVCOL"
      [] ins = "lwc" /\ meas = "iref" -> "CLWCIREF"
      [] ins = "lwc" /\ meas = "vref" -> "CLWCVREF"
      [] ins = "lwc1" /\ meas = "icol" -> "CLWC1ICOL"
      [] ins = "lwc1" /\ meas = "vcol" -> "CLWC1VCOL"
      [] ins = "lwc1" /\ meas = "iref" -> "CLWC1IREF"
      [] ins = "lwc1" /\ meas = "vref" -> "CLWC1VREF"
      [] ins = "lwc2" /\ meas = "icol" -> "CLWC2ICOL"
      [] ins = "lwc2" /\ meas = "vcol" -> "CLWC2VCOL"
      [] ins = "lwc2" /\ meas = "iref" -> "CLWC2IREF"
      [] ins = "lwc2" /\ meas = "vref" -> "CLWC2VREF"

\* 'NV_{ins}_{meas}'.format(ins=ins.upper(), meas=meas.upper())
NvName(ins, meas) ==
    CASE ins = "twc" /\ meas = "icol" -> "NV_TWC_ICOL"
      [] ins = "twc" /\ meas = "vcol" -> "NV_TWC_VCOL"
      [] ins = "twc" /\ meas = "iref" -> "NV_TWC_IREF"
      [] ins = "twc" /\ meas = "vref" -> "NV_TWC_VREF"
      [] ins = "lwc" /\ meas = "icol" -> "NV_LWC_ICOL"
      [] ins = "lwc" /\ meas = "vcol" -> "NV_LWC_VCOL"
      [] ins = "lwc" /\ meas = "iref" -> "NV_LWC_IREF"
      [] ins = "lwc" /\ meas = "vref" -> "NV_LWC_VREF"
      [] ins = "lwc1" /\ meas = "icol" -> "NV_LWC1_ICOL"
      [] ins = "lwc1" /\ meas = "vcol" -> "NV_LWC1_VCOL"
      [] ins = "lwc1" /\ meas = "iref" -> "NV_LWC1_IREF"
      [] ins = "lwc1" /\ meas = "vref" -> "NV_LWC1_VREF"
      [] ins = "lwc2" /\ meas = "icol" -> "NV_LWC2_ICOL"
      [] ins = "lwc2" /\ meas = "vcol" -> "NV_LWC2_VCOL"
      [] ins = "lwc2" /\ meas = "iref" -> "NV_LWC2_IREF"
      [] ins = "lwc2" /\ meas = "vref" -> "NV_LWC2_VREF"

\* 'CALNV{ins}'.format(ins=ins.upper())
CalNvName(ins) ==
    CASE ins = "twc" -> "CALNVTWC"
      [] ins = "lwc" -> "CALNVLWC"
      [] ins = "lwc1" -> "CALNVLWC1"
      [] ins = "lwc2" -> "CALNVLWC2"

\* 'NV_{ins}_C', 'NV_{ins}_U', 'NV_{ins}_COL_P', 'NV_{ins}_REF_P'
NvOutName(ins, suffix) ==
    CASE ins = "twc" /\ suffix = "C" -> "NV_TWC_C"
      [] ins = "twc" /\ suffix = "U" -> "NV_TWC_U"
      [] ins = "twc" /\ suffix = "COL_P" -> "NV_TWC_COL_P"
      [] ins = "twc" /\ suffix = "REF_P" -> "NV_TWC_REF_P"
      [] ins = "lwc" /\ suffix = "C" -> "NV_LWC_C"
      [] ins = "lwc" /\ suffix = "U" -> "NV_LWC_U"
      [] ins = "lwc" /\ suffix = "COL_P" -> "NV_LWC_COL_P"
      [] ins = "lwc" /\ suffix = "REF_P" -> "NV_LWC_REF_P"
      [] ins = "lwc1" /\ suffix = "C" -> "NV_LWC1_C"
      [] ins = "lwc1" /\ suffix = "U" -> "NV_LWC1_U"
      [] ins = "lwc1" /\ suffix = "COL_P" -> "NV_LWC1_COL_P"
      [] ins = "lwc1" /\ suffix = "REF_P" -> "NV_LWC1_REF_P"
      [] ins = "lwc2" /\ suffix = "C" -> "NV_LWC2_C"
      [] ins = "lwc2" /\ suffix = "U" -> "NV_LWC2_U"
      [] ins = "lwc2" /\ suffix = "COL_P" -> "NV_LWC2_COL_P"
      [] ins = "lwc2" /\ suffix = "REF_P" -> "NV_LWC2_REF_P"


\* a common declaration without the collector power
DeclareOutputsCommonShort(decls) ==
    Declare(Declare(decls, "NV_TWC_U", "gram m-3", 64), "NV_TWC_C", "gram m-3", 64)

\* Nevzorov._declare_outputs_common
DeclareOutputsCommon(decls) ==
    Declare(Declare(Declare(decls,
        "NV_TWC_U", "gram m-3", 64),
        "NV_TWC_C", "gram m-3", 64),
        "NV_TWC_COL_P", "W", 64)

\* Nevzorov._declare_outputs_1t1l2r
DeclareOutputs1t1l2r(decls) ==
    Declare(Declare(Declare(Declare(Declare(decls,
        "NV_LWC_U", "gram m-3", 64),
        "NV_LWC_C", "gram m-3", 64),
        "NV_TWC_REF_P", "W", 64),
        "NV_LWC_COL_P", "W", 64),
        "NV_LWC_REF_P", "W", 64)

\* Nevzorov._declare_outputs_1t2l1r
DeclareOutputs1t2l1r(decls) ==
    Declare(Declare(Declare(Declare(Declare(Declare(Declare(decls,
        "NV_LWC1_U", "gram m-3", 64),
        "NV_LWC1_C", "gram m-3", 64),
        "NV_LWC2_U", "gram m-3", 64),
        "NV_LWC2_C", "gram m-3", 64),
        "NV_REF_P", "W", 64),
        "NV_LWC1_COL_P", "W", 64),
        "NV_LWC2_COL_P", "W", 64)

\* self.dataset[key]: a constant or a time series of the dataset
DatasetGet(ds, key) ==
    IF key \in DOMAIN ds.constants THEN ds.constants[key] ELSE ds.variables[key]

\* the keys that the dataset holds; self.dataset[key] raises KeyError for
\* any other key
Available(ds) == DOMAIN ds.constants \cup DOMAIN ds.variables

\* Nevzorov.declare_outputs: the common outputs are declared first, then
\* the vane type is looked at; an unknown vane type raises ValueError
NevzDeclareOutputs(ds, decls) ==
    LET common == DeclareOutputsCommon(decls)
        vanetype == LowerVane(DatasetGet(ds, "VANETYPE"))
    IN IF vanetype = "1t1l2r"
       THEN [raised |-> "none", declarations |-> DeclareOutputs1t1l2r(common)]
       ELSE IF vanetype = "1t2l1r"
       THEN [raised |-> "none", declarations |-> DeclareOutputs1t2l1r(common)]
       ELSE [raised |-> "ValueError", declarations |-> common]

\* var_map of Nevzorov._remap_1t2l1r, in order: (new name, old name)
VarMap ==
    << <<"CORCON_nv_lwc1_vcol", "CORCON_nv_lwc_vcol">>,
       <<"CORCON_nv_lwc1_icol", "CORCON_nv_lwc_icol">>,
       <<"CORCON_nv_lwc1_vref", "CORCON_nv_lwc_vref">>,
       <<"CORCON_nv_lwc1_iref", "CORCON_nv_lwc_iref">>,
       <<"CORCON_nv_lwc2_vcol", "CORCON_nv_twc_vref">>,
       <<"CORCON_nv_lwc2_icol", "CORCON_nv_twc_iref">>,
       <<"CORCON_nv_lwc2_vref", "CORCON_nv_lwc_vref">>,
       <<"CORCON_nv_lwc2_iref", "CORCON_nv_lwc_iref">>,
       <<"CORCON_nv_twc_vref", "CORCON_nv_lwc_vref">>,
       <<"CORCON_nv_twc_iref", "CORCON_nv_lwc_iref">>,
       <<"CLWC1ICOL", "CLWCICOL">>,
       <<"CLWC1VCOL", "CLWCVCOL">>,
       <<"CLWC1IREF", "CLWCIREF">>,
       <<"CLWC1VREF", "CLWCVREF">>,
       <<"CLWC2ICOL", "CTWCIREF">>,
       <<"CLWC2VCOL", "CTWCVREF">>,
       <<"CLWC2IREF", "CLWCIREF">>,
       <<"CLWC2VREF", "CLWCVREF">>,
       <<"CTWCICOL", "CTWCICOL">>,
       <<"CTWCVCOL", "CTWCVCOL">>,
       <<"CTWCIREF", "CLWCIREF">>,
       <<"CTWCVREF", "CLWCVREF">> >>

\* lines 348-351, one entry of var_map: the old name is copied in the working
\* frame if it is a column there; otherwise (KeyError) the old name is looked
\* up in the dataset and stored in the dataset's constants under the new
\* name; a KeyError of that lookup ends the remap
RemapEntry(st, var) ==
    IF st.raised # "none" THEN st
    ELSE IF var[2] \in DOMAIN st.d
    THEN [st EXCEPT !.d = Put(st.d, var[1], st.d[var[2]])]
    ELSE IF var[2] \notin Available(st.dataset)
    THEN [st EXCEPT !.raised = "KeyError"]
    ELSE [st EXCEPT !.dataset.constants =
                        Put(st.dataset.constants, var[1], DatasetGet(st.dataset, var[2]))]

\* a remap that goes through var_map from its last entry to its first
RECURSIVE RemapEntriesBackwards(_, _)
RemapEntriesBackwards(st, k) ==
    IF k = 0 THEN st ELSE RemapEntriesBackwards(RemapEntry(st, VarMap[k]), k - 1)

RECURSIVE RemapEntries(_, _)
RemapEntries(st, k) ==
    IF k = 0 THEN st ELSE RemapEntry(RemapEntries(st, k - 1), VarMap[k])

\* Nevzorov._remap_1t2l1r on st = [d, dataset, ..., raised]
Remap1t2l1r(st) ==
    IF LowerVane(DatasetGet(st.dataset, "VANETYPE")) # "1t2l1r"
    THEN st
    ELSE RemapEntries(st, Len(VarMap))

\* the time series among Nevzorov.inputs
NevzSeriesInputs ==
    {"CORCON_nv_lwc_vcol", "CORCON_nv_lwc_icol", "CORCON_nv_lwc_vref",
     "CORCON_nv_lwc_iref", "CORCON_nv_twc_vcol", "CORCON_nv_twc_icol",
     "CORCON_nv_twc_vref", "CORCON_nv_twc_iref",
     "TAS_RVSM", "IAS_RVSM", "PS_RVSM", "WOW_IND"}

\* PPBase.get_dataframe(index=..., method='onto', limit=63): the module's
\* time-series inputs as columns on the index of CORCON_nv_twc_vcol (in the
\* model every input already is on that index)
NevzGetDataframe(ds) == [c \in NevzSeriesInputs |-> ds.variables[c]]

\* lines 363-364: self.d['flag'] = 0; self.d.loc[self.d['WOW_IND'] == 1, 'flag'] = 3
NevzFlag(frame) ==
    Put(frame, "flag",
        [i \in 1..Len(frame["WOW_IND"]) |-> IF frame["WOW_IND"][i] = 1 THEN 3 ELSE 0])

\* line 398: (_cals[0] + _cals[1] * raw) * _cals[2]
Calibrate(cals, raw) ==
    [i \in 1..Len(raw) |-> NumMul(NumAdd(cals[1], NumMul(cals[2], raw[i])), cals[3])]

\* lines 385-398: the calibrated columns NV_<INS>_<MEAS> of one sensor
RECURSIVE CalibrateSensor(_, _, _, _)
CalibrateSensor(frame, ds, ins, k) ==
    IF k = 0 THEN frame
    ELSE Put(CalibrateSensor(frame, ds, ins, k - 1),
             NvName(ins, Measurements[k]),
             Calibrate(DatasetGet(ds, CalName(ins, Measurements[k])),
                       frame[CorconName(ins, Measurements[k])]))

\* lines 385-398: the number of measurements of a sensor that are calibrated
\* before the lookup of a raw column or of a calibration raises KeyError
RECURSIVE CalibratedCount(_, _, _, _)
CalibratedCount(frame, ds, ins, k) ==
    IF k > Len(Measurements) THEN Len(Measurements)
    ELSE IF /\ CorconName(ins, Measurements[k]) \in DOMAIN frame
            /\ CalName(ins, Measurements[k]) \in Available(ds)
    THEN CalibratedCount(frame, ds, ins, k + 1)
    ELSE k - 1

\* defaults of get_no_cloud_mask, used by the call of line 414
DefaultWindowSecs == 3
DefaultMinPeriod == 5
DefaultFreq == 64

\* get_fitted_k: scipy's curve_fit either raises or returns popt; fitres is
\* what it did, fitres.term stands for the fitted correction
\* popt[0] * (1. / ias) + popt[1] * np.log10(ps), taken the same at every
\* defined sample
GetFittedK(col_p, ref_p, ias, ps, no_cloud_mask, k, fitres) ==
    IF fitres.raised # "none"
    THEN [raised |-> fitres.raised, K |-> None]
    ELSE [raised |-> "none",
          K |-> [i \in 1..Len(ias) |->
                    IF IsNaN(ias[i]) \/ IsNaN(ps[i]) THEN NaN ELSE k + fitres.term]]

\* line 422: except (RuntimeError, ValueError)
CaughtFitErrors == {"RuntimeError", "ValueError"}

\* (mutant of CorrectedWrite: the corrected variable stays writable)
CorrectedWriteAlways(fit_success) == TRUE

\* lines 433-434: w_c.write = False if the fit failed
CorrectedWrite(fit_success) == fit_success

\* lines 449-451: add_flag and add_output for each variable of vs, in order
RECURSIVE AddFlagged(_, _, _, _)
AddFlagged(outs, vs, flag, k) ==
    IF k = 0 THEN outs
    ELSE AddOutput(AddFlagged(outs, vs, flag, k - 1), AddFlag(vs[k], flag))

\* lines 378-462, the loop body for one sensor, on
\* st = [d, dataset, outputs, clear_air, raised]; a KeyError leaves what was
\* done before it
NevzSensor(st, ins, vanetype, fit) ==
    LET ds      == st.dataset
        nvl     == DatasetGet(ds, "CALNVL")
        area    == DatasetGet(ds, CalNvName(ins))[2]
        K       == DatasetGet(ds, CalNvName(ins))[1]
        count   == CalibratedCount(st.d, ds, ins, 1)
        frame   == CalibrateSensor(st.d, ds, ins, count)
        col_p   == SeriesMul(frame[NvName(ins, "icol")], frame[NvName(ins, "vcol")])
        ref_p   == SeriesMul(frame[NvName(ins, "iref")], frame[NvName(ins, "vref")])
        clear_air == IF ins = "twc"
                     THEN GetNoCloudMask(col_p, frame["WOW_IND"], DefaultWindowSecs,
                                         DefaultMinPeriod, DefaultFreq)
                     ELSE st.clear_air
        fitted  == GetFittedK(col_p, ref_p, frame["IAS_RVSM"], frame["PS_RVSM"],
                              clear_air, K, fit[ins])
        fit_success == fitted.raised = "none"
        fitted_K_ref_p == IF fit_success THEN SeriesMul(fitted.K, ref_p)
                          ELSE SeriesScale(0, ref_p)
        denom   == SeriesScale(area * nvl, frame["TAS_RVSM"])
        w_c     == [DecadesVariable(NvOutName(ins, "C"),
                        SeriesDiv(SeriesSub(col_p, fitted_K_ref_p), denom))
                    EXCEPT !.write = CorrectedWrite(fit_success)]
        w_u     == DecadesVariable(NvOutName(ins, "U"),
                        SeriesDiv(SeriesSub(col_p, SeriesScale(K, ref_p)), denom))
        col_power == DecadesVariable(NvOutName(ins, "COL_P"), col_p)
        ref_power == DecadesVariable(NvOutName(ins, "REF_P"), ref_p)
        outs3   == AddFlagged(st.outputs, <<w_c, w_u, col_power>>, frame["flag"], 3)
        outs    == IF vanetype = "1t1l2r"
                   THEN AddOutput(outs3, AddFlag(ref_power, frame["flag"]))
                   ELSE IF ins = "twc"
                   THEN AddOutput(outs3,
                            AddFlag(DecadesVariable("NV_REF_P", ref_p), frame["flag"]))
                   ELSE outs3
    IN IF CalNvName(ins) \notin Available(ds)
       THEN [st EXCEPT !.raised = "KeyError"]
       ELSE IF count < Len(Measurements)
       THEN [st EXCEPT !.d = frame, !.raised = "KeyError"]
       ELSE IF ~fit_success /\ fitted.raised \notin CaughtFitErrors
       THEN [st EXCEPT !.d = frame, !.clear_air = clear_air, !.raised = fitted.raised]
       ELSE [st EXCEPT !.d = frame, !.clear_air = clear_air, !.outputs = outs]

\* the loop of line 378 over the first k sensors; an exception ends it
RECURSIVE NevzSensors(_, _, _, _)
NevzSensors(st, vanetype, fit, k) ==
    IF k = 0 THEN st
    ELSE LET before == NevzSensors(st, vanetype, fit, k - 1)
         IN IF before.raised # "none" THEN before
            ELSE NevzSensor(before, Instruments(vanetype)[k], vanetype, fit)

\* Nevzorov.process, on a module that has no working frame yet; the lookup
\* of a key that the dataset does not hold raises KeyError and leaves what
\* was done before it
NevzProcess(ds, outs, fit) ==
    LET st0 == [d |-> NevzFlag(NevzGetDataframe(ds)), dataset |-> ds,
                outputs |-> outs, clear_air |-> None, raised |-> "none"]
        st1 == Remap1t2l1r(st0)
        vanetype == LowerVane(DatasetGet(st1.dataset, "VANETYPE"))
    IN IF "CORCON_nv_twc_vcol" \notin Available(ds)
       THEN [d |-> None, dataset |-> ds, outputs |-> outs, clear_air |-> None,
             raised |-> "KeyError"]
       ELSE IF "VANETYPE" \notin Available(ds)
       THEN [st0 EXCEPT !.raised = "KeyError"]
       ELSE IF st1.raised # "none" THEN st1
       ELSE IF "CALNVL" \notin Available(st1.dataset) \/ vanetype \notin KnownVanes
       THEN [st1 EXCEPT !.raised = "KeyError"]
       ELSE NevzSensors(st1, vanetype, fit, Len(Instruments(vanetype)))

\* ---- the inputs of the Nevzorov specification
NevzLen == 2
VaneValues == {"1t1l2r", "1t2l1r", "1T2L1R", "2T2L"}
NevzWowValues == {0, 1, NaN}
NevzRawValues == {1, 2}
NevzTasValues == {0, 10}

\* what curve_fit does for one sensor: it returns (with a correction term)
\* or raises one of the exceptions it documents
FitResults ==
    {[raised |-> "none", term |-> t] : t \in {0, 1}}
        \cup {[raised |-> e, term |-> 0] : e \in {"RuntimeError", "ValueError"}}

\* the sensors curve_fit is called for
FitSensors(vane) ==
    IF LowerVane(vane) \in KnownVanes
    THEN {Instruments(LowerVane(vane))[k] : k \in 1..Len(Instruments(LowerVane(vane)))}
    ELSE {}

\* calibrations (offset, gain, scale) and sensor constants (K, area) of the
\* flight constants; every table differs from the others
NevzConstants(vane) ==
    [VANETYPE |-> vane,
     CLWCICOL |-> <<0, 1, 1>>, CLWCVCOL |-> <<1, 1, 1>>,
     CLWCIREF |-> <<2, 1, 1>>, CLWCVREF |-> <<3, 1, 1>>,
     CTWCICOL |-> <<4, 1, 1>>, CTWCVCOL |-> <<5, 1, 1>>,
     CTWCIREF |-> <<6, 1, 1>>, CTWCVREF |-> <<7, 1, 1>>,
     CALNVTWC |-> <<1, 1>>, CALNVLWC |-> <<2, 1>>,
     CALNVLWC1 |-> <<2, 1>>, CALNVLWC2 |-> <<3, 1>>,
     CALNVL |-> 2]

Const(n, v) == [i \in 1..n |-> v]

NevzVariables(twc_icol, wow, tas) ==
    [CORCON_nv_lwc_vcol |-> Const(NevzLen, 11), CORCON_nv_lwc_icol |-> Const(NevzLen, 12),
     CORCON_nv_lwc_vref |-> Const(NevzLen, 13), CORCON_nv_lwc_iref |-> Const(NevzLen, 14),
     CORCON_nv_twc_vcol |-> Const(NevzLen, 15), CORCON_nv_twc_icol |-> twc_icol,
     CORCON_nv_twc_vref |-> Const(NevzLen, 17), CORCON_nv_twc_iref |-> Const(NevzLen, 18),
     TAS_RVSM |-> tas, IAS_RVSM |-> Const(NevzLen, 9),
     PS_RVSM |-> Const(NevzLen, 8), WOW_IND |-> wow]

InitNevz ==
    /\ pc = "nevz_created"
    /\ \E vane \in VaneValues :
        /\ \E raw \in NevzRawValues, wow \in [1..NevzLen -> NevzWowValues],
              tas \in NevzTasValues :
              dataset = [constants |-> NevzConstants(vane),
                         variables |-> NevzVariables(Const(NevzLen, raw), wow,
                                                     Const(NevzLen, tas))]
        /\ \E fit \in [FitSensors(vane) -> FitResults] : args = [fit |-> fit]
    /\ d = None
    /\ declarations = NoDeclarations
    /\ outputs = <<>>
    /\ ret = None

\* Nevzorov.declare_outputs
NevzorovDeclareOutputs ==
    /\ pc = "nevz_created"
    /\ LET r == NevzDeclareOutputs(dataset, declarations)
       IN /\ declarations' = r.declarations
          /\ pc' = IF r.raised = "none" THEN "nevz_declared" ELSE "nevz_declare_raised"
          /\ ret' = r.raised
    /\ UNCHANGED <<dataset, d, outputs, args>>

\* Nevzorov.process, called once the outputs are declared
NevzorovProcess ==
    /\ pc = "nevz_declared"
    /\ LET r == NevzProcess(dataset, outputs, args.fit)
       IN /\ d' = r.d
          /\ dataset' = r.dataset
          /\ outputs' = r.outputs
          /\ pc' = IF r.raised = "none" THEN "nevz_processed" ELSE "nevz_process_raised"
          /\ ret' = r.raised
    /\ UNCHANGED <<declarations, args>>

NextNevz == NevzorovDeclareOutputs \/ NevzorovProcess

SpecNevz == InitNevz /\ [][NextNevz]_vars

\* ---- claims about Nevzorov

\* the output of a name among the outputs added so far
HasOutput(name) == \E k \in 1..Len(outputs) : outputs[k].name = name
OutputNamed(name) == outputs[CHOOSE k \in 1..Len(outputs) : outputs[k].name = name]

NevzVane == LowerVane(dataset.constants["VANETYPE"])

FitFailed(ins) == args.fit[ins].raised # "none"

\* C3: when the fit of a sensor fails, process does not raise, NV_<ins>_C is
\* added with write = False, NV_<ins>_U and NV_<ins>_COL_P are added
\* writable, and the corrected outputs of the sensors whose fit succeeded
\* stay writable.
C3_FitFailureDegrades ==
    /\ pc # "nevz_process_raised"
    /\ pc = "nevz_processed" =>
        \A ins \in FitSensors(NevzVane) :
            /\ HasOutput(NvOutName(ins, "C"))
            /\ HasOutput(NvOutName(ins, "U"))
            /\ HasOutput(NvOutName(ins, "COL_P"))
            /\ OutputNamed(NvOutName(ins, "U")).write
            /\ OutputNamed(NvOutName(ins, "COL_P")).write
            /\ OutputNamed(NvOutName(ins, "C")).write <=> ~FitFailed(ins)

\* a processed flight in which one fit failed and another one succeeded
C3_Witness ==
    /\ pc = "nevz_processed"
    /\ \E a, b \in FitSensors(NevzVane) :
        /\ FitFailed(a) /\ ~OutputNamed(NvOutName(a, "C")).write
        /\ ~FitFailed(b) /\ OutputNamed(NvOutName(b, "C")).write

\* C7: Nevzorov.process leaves the dataset's constants table as it was, for
\* every vane type.
C7_ConstantsUnchanged ==
    [][pc = "nevz_declared" => dataset'.constants = dataset.constants]_vars

\* C8: with a VANETYPE that is neither 1t1l2r nor 1t2l1r, declare_outputs
\* raises ValueError and no output has been declared at that point.
C8_UnknownVaneDeclaresNothing ==
    (NevzVane \notin KnownVanes /\ pc # "nevz_created") =>
        /\ pc = "nevz_declare_raised"
        /\ ret = "ValueError"
        /\ DOMAIN declarations = {}

\* the constants and time series of the flight before process ran: the
\* remap writes time series only to the working frame
PreRemap(name) ==
    IF name \in DOMAIN dataset.variables THEN dataset.variables[name]
    ELSE NevzConstants(dataset.constants["VANETYPE"])[name]

\* what name stands for after the remap: a column of the working frame or a
\* constant of the dataset
PostRemap(name) ==
    IF name \in DOMAIN d THEN d[name] ELSE dataset.constants[name]

\* C23: for vane type 1t2l1r the remap makes the lwc1 channels and
\* calibrations the former lwc ones, the lwc2 collector channels and
\* calibrations the former twc reference ones, leaves the twc collector,
\* and makes every reference channel and calibration the former lwc
\* reference; for another vane type nothing is remapped.
C23_RemapRoles ==
    pc = "nevz_processed" =>
        IF NevzVane = "1t2l1r"
        THEN /\ PostRemap("CORCON_nv_lwc1_vcol") = PreRemap("CORCON_nv_lwc_vcol")
             /\ PostRemap("CORCON_nv_lwc1_icol") = PreRemap("CORCON_nv_lwc_icol")
             /\ PostRemap("CLWC1VCOL") = PreRemap("CLWCVCOL")
             /\ PostRemap("CLWC1ICOL") = PreRemap("CLWCICOL")
             /\ PostRemap("CORCON_nv_lwc2_vcol") = PreRemap("CORCON_nv_twc_vref")
             /\ PostRemap("CORCON_nv_lwc2_icol") = PreRemap("CORCON_nv_twc_iref")
             /\ PostRemap("CLWC2VCOL") = PreRemap("CTWCVREF")
             /\ PostRemap("CLWC2ICOL") = PreRemap("CTWCIREF")
             /\ PostRemap("CORCON_nv_twc_vcol") = PreRemap("CORCON_nv_twc_vcol")
             /\ PostRemap("CORCON_nv_twc_icol") = PreRemap("CORCON_nv_twc_icol")
             /\ PostRemap("CTWCVCOL") = PreRemap("CTWCVCOL")
             /\ PostRemap("CTWCICOL") = PreRemap("CTWCICOL")
             /\ \A ref \in {"CORCON_nv_twc_vref", "CORCON_nv_lwc1_vref",
                             "CORCON_nv_lwc2_vref"} :
                    PostRemap(ref) = PreRemap("CORCON_nv_lwc_vref")
             /\ \A ref \in {"CORCON_nv_twc_iref", "CORCON_nv_lwc1_iref",
                             "CORCON_nv_lwc2_iref"} :
                    PostRemap(ref) = PreRemap("CORCON_nv_lwc_iref")
             /\ \A ref \in {"CTWCVREF", "CLWC1VREF", "CLWC2VREF"} :
                    PostRemap(ref) = PreRemap("CLWCVREF")
             /\ \A ref \in {"CTWCIREF", "CLWC1IREF", "CLWC2IREF"} :
                    PostRemap(ref) = PreRemap("CLWCIREF")
        ELSE /\ dataset.constants = NevzConstants(dataset.constants["VANETYPE"])
             /\ \A name \in NevzSeriesInputs : d[name] = dataset.variables[name]
             /\ \A k \in 1..Len(VarMap) :
                    VarMap[k][1] \in DOMAIN d => VarMap[k][1] \in NevzSeriesInputs

\* the names that process passed to add_output
OutputNames == {outputs[k].name : k \in 1..Len(outputs)}

\* C25: for a supported vane type the names that Nevzorov.process passes to
\* add_output are exactly the names that declare_outputs declared, each
\* added once, also when a fit fails.
C25_OutputsAreTheDeclared ==
    pc = "nevz_processed" =>
        /\ OutputNames = DOMAIN declarations
        /\ Cardinality(OutputNames) = Len(outputs)

\* a processed flight with the vane 1t2l1r in which a fit failed
C25_Witness ==
    /\ pc = "nevz_processed"
    /\ NevzVane = "1t2l1r"
    /\ \E ins \in FitSensors(NevzVane) : FitFailed(ins)
    /\ Len(outputs) = 10
    /\ HasOutput("NV_REF_P") /\ HasOutput("NV_LWC2_C")

\* a processed flight with the vane 1t2l1r, written in capitals, whose second
\* liquid collector reads the former total-water reference channel
C23_Witness ==
    /\ pc = "nevz_processed"
    /\ dataset.constants["VANETYPE"] = "1T2L1R"
    /\ d["CORCON_nv_lwc2_vcol"] = dataset.variables["CORCON_nv_twc_vref"]
    /\ d["CORCON_nv_twc_vref"] = dataset.variables["CORCON_nv_lwc_vref"]
    /\ dataset.constants["CLWC2ICOL"] = <<6, 1, 1>>

(***************************************************************************)
(* ppodd.pod.p_rosemount_temps / p_thermistor_temps: true air temperature  *)
(* from the Rosemount housings.  Real numbers are fixed-point integers:    *)
(* Mach numbers, recovery factors and the arguments of exp and log in      *)
(* thousandths, temperatures in hundredths of a kelvin, pressures in hPa.  *)
(***************************************************************************)

\* thousandths per unit
Scale == 1000

\* a / b rounded to the nearest integer (b > 0)
RoundDiv(a, b) == (a + b \div 2) \div b

\* number of terms of the exponential series
ExpTerms == 16

\* the terms term, term * x / n, ... of the exponential series, summed
RECURSIVE ExpSum(_, _, _)
ExpSum(x, n, term) ==
    IF n > ExpTerms THEN 0
    ELSE term + ExpSum(x, n + 1, RoundDiv(term * x, n * Scale))

\* np.exp on thousandths
Exp(x) == ExpSum(x, 1, Scale)

\* log(2) in thousandths
Ln2 == 693

\* log of m in [0.75, 1.5]: 2 * (z + z^3/3 + z^5/5 + z^7/7), z = (m-1)/(m+1)
LnSeries(m) ==
    LET z  == RoundDiv((m - Scale) * Scale, m + Scale)
        z2 == RoundDiv(z * z, Scale)
        z3 == RoundDiv(z * z2, Scale)
        z5 == RoundDiv(z3 * z2, Scale)
        z7 == RoundDiv(z5 * z2, Scale)
    IN 2 * (z + RoundDiv(z3, 3) + RoundDiv(z5, 5) + RoundDiv(z7, 7))

\* np.log on thousandths, for m > 0: halve or double into [0.75, 1.5]
RECURSIVE Ln(_)
Ln(m) ==
    IF m < 750 THEN Ln(2 * m) - Ln2
    ELSE IF m > 1500 THEN Ln(RoundDiv(m, 2)) + Ln2
    ELSE LnSeries(m)

\* the integer square root of n >= 0, searched between lo and hi
RECURSIVE SqrtSearch(_, _, _)
SqrtSearch(n, lo, hi) ==
    IF lo >= hi THEN lo
    ELSE LET mid == (lo + hi + 1) \div 2
         IN IF mid * mid <= n THEN SqrtSearch(n, mid, hi)
            ELSE SqrtSearch(n, lo, mid - 1)

\* the largest root whose square is a 32 bit integer
MaxRoot == 46340

Sqrt(n) == SqrtSearch(n, 0, Min(n, MaxRoot))

\* the Mach number below which sp_mach flags a sample
MACH_VALID_MIN == 50

\* ppodd.utils.calcs.sp_mach(psp, sp, flag=True) on one sample: the
\* isentropic-flow Mach number sqrt(5 * ((1 + psp / sp)^(2/7) - 1)) in
\* thousandths, undefined where an input is undefined or the root is of a
\* negative number, and the flag of a non-physical static pressure or a Mach
\* number that is too low
SpMachValue(psp, sp) ==
    IF IsNaN(psp) \/ IsNaN(sp) \/ sp = 0 THEN NaN
    ELSE LET ratio == Scale + RoundDiv(psp * Scale, sp)
         IN IF ratio <= 0 THEN NaN
            ELSE LET m2 == 5 * (Exp(RoundDiv(2 * Ln(ratio), 7)) - Scale)
                 IN IF m2 < 0 THEN NaN ELSE Sqrt(m2 * Scale)

SpMachFlag(psp, sp) ==
    LET mach == SpMachValue(psp, sp)
    IN IF (~IsNaN(sp) /\ sp <= 0) \/ (~IsNaN(mach) /\ mach < MACH_VALID_MIN)
       THEN 1 ELSE 0

SpMach(psp, sp) ==
    [mach |-> [i \in 1..Len(psp) |-> SpMachValue(psp[i], sp[i])],
     flag |-> [i \in 1..Len(psp) |-> SpMachFlag(psp[i], sp[i])]]

\* ppodd.utils.calcs.true_air_temp(iat, mach, rf) on one sample:
\* iat / (1 + 0.2 * mach^2 * rf), with the denominator in ten-thousandths
TrueAirTempValue(iat, mach, rf) ==
    IF IsNaN(iat) \/ IsNaN(mach) THEN NaN
    ELSE RoundDiv(iat * 10000, 10000 + RoundDiv(rf * mach * mach, 500000))

TrueAirTemp(iat, mach, rf) ==
    [i \in 1..Len(iat) |-> TrueAirTempValue(iat[i], mach[i], rf)]

\* 0 degrees Celsius in hundredths of a kelvin
ZeroCelsius == 27315

\* ppodd.utils.conversions.celsius_to_kelvin
CelsiusToKelvin(series) == SeriesShift(ZeroCelsius, series)

\* the floor of the Mach number, 0.05
MachFloor == 50

\* (mutant of FloorMach: the floor is not applied)
FloorMachNone(mach) == mach

\* d.loc[d['MACHNO'] < 0.05, 'MACHNO'] = 0.05: an undefined Mach number
\* compares False and stays undefined
FloorMach(mach) ==
    [i \in 1..Len(mach) |->
        IF ~IsNaN(mach[i]) /\ mach[i] < MachFloor THEN MachFloor ELSE mach[i]]

\* RosemountTemperatures.calc_mach
RosemountCalcMach(frame) ==
    LET sm == SpMach(frame.Q_RVSM, frame.PS_RVSM)
    IN Put(Put(frame, "MACHNO", FloorMach(sm.mach)), "MACHNO_FLAG", sm.flag)

\* ThermistorV1Temperatures.calc_mach
ThermistorCalcMach(frame) ==
    LET sm == SpMach(frame.Q_RVSM, frame.PS_RVSM)
    IN Put(Put(frame, "MACHNO", FloorMach(sm.mach)), "MACHNO_FLAG", sm.flag)

\* calc_heating_correction, lines 79-86, on one sample, in hundredths of a
\* kelvin: 0.1 * exp(exp(1.171 + (log(MACHNO) + 2.738) *
\*                              (-0.000568 * (Q_RVSM + PS_RVSM) - 0.452)))
HeatingFormula(mach, q, ps) ==
    IF IsNaN(mach) \/ IsNaN(q) \/ IsNaN(ps) \/ mach <= 0 THEN NaN
    ELSE LET a == Ln(mach) + 2738
             b == RoundDiv(-568 * (q + ps) - 452000, 100)
             x == 1171 + RoundDiv(a * b, 10000)
         IN RoundDiv(Exp(Exp(x)), 100)

\* series.fillna(method='pad') at sample i: the last defined value at or
\* before i, undefined before the first defined value
RECURSIVE PadAt(_, _)
PadAt(col, i) ==
    IF ~IsNaN(col[i]) THEN col[i]
    ELSE IF i = 1 THEN NaN
    ELSE PadAt(col, i - 1)

\* (mutant of FillNaPad: nothing is filled forward)
FillNaPadNothing(col) == col

\* series.fillna(method='pad')
FillNaPad(col) == [i \in 1..Len(col) |-> PadAt(col, i)]

\* series.fillna(0)
FillNaZero(col) == [i \in 1..Len(col) |-> IF IsNaN(col[i]) THEN 0 ELSE col[i]]

\* calc_heating_correction of both modules: the correction where the filled
\* heater flag is not 0, and 0 where it is
CalcHeatingCorrection(frame) ==
    LET corr == [i \in 1..Len(frame.MACHNO) |->
                    HeatingFormula(frame.MACHNO[i], frame.Q_RVSM[i], frame.PS_RVSM[i])]
        heating_flag == FillNaZero(FillNaPad(frame.PRTAFT_deiced_temp_flag))
    IN Put(frame, "HEATING_CORRECTION",
           [i \in 1..Len(corr) |-> IF heating_flag[i] = 0 THEN 0 ELSE corr[i]])

\* cals[::-1]
Reverse(seq) == [k \in 1..Len(seq) |-> seq[Len(seq) + 1 - k]]

\* np.polyval(p, x) on one sample: p[0] * x^(n-1) + ... + p[n-1], by Horner's
\* rule over the first k coefficients
RECURSIVE PolyVal(_, _, _)
PolyVal(p, x, k) ==
    IF IsNaN(x) THEN NaN
    ELSE IF k = 0 THEN 0
    ELSE PolyVal(p, x, k - 1) * x + p[k]

PolyValSeries(p, series) ==
    [i \in 1..Len(series) |-> PolyVal(p, series[i], Len(p))]

\* RosemountTemperatures.calc_ndi_iat
CalcNdiIat(frame, ds) ==
    Put(frame, "ND_IAT",
        CelsiusToKelvin(PolyValSeries(Reverse(DatasetGet(ds, "CALNDT")),
                                      frame.CORCON_ndi_temp)))

\* RosemountTemperatures.calc_di_iat
CalcDiIat(frame, ds) ==
    Put(frame, "DI_IAT",
        SeriesSub(CelsiusToKelvin(PolyValSeries(Reverse(DatasetGet(ds, "CALDIT")),
                                                frame.CORCON_di_temp)),
                  frame.HEATING_CORRECTION))

\* RosemountTemperatures.calc_ndi_tat: the recovery factor is TRFCTR[1], the
\* second entry
CalcNdiTat(frame, ds) ==
    Put(frame, "TAT_ND_R",
        TrueAirTemp(frame.ND_IAT, frame.MACHNO, DatasetGet(ds, "TRFCTR")[2]))

\* RosemountTemperatures.calc_di_tat: the recovery factor is TRFCTR[0], the
\* first entry
CalcDiTat(frame, ds) ==
    Put(frame, "TAT_DI_R",
        TrueAirTemp(frame.DI_IAT, frame.MACHNO, DatasetGet(ds, "TRFCTR")[1]))

\* the default threshold of flag_delta_t, 1 K
DeltaTThreshold == 100

Abs(x) == IF x < 0 THEN -x ELSE x

\* (mutant of FlagDeltaT: a difference equal to the threshold is flagged)
FlagDeltaTInclusive(frame, threshold) ==
    Put(frame, "DT_FLAG",
        [i \in 1..Len(frame.TAT_DI_R) |->
            LET diff == NumSub(frame.TAT_DI_R[i], frame.TAT_ND_R[i])
            IN IF ~IsNaN(diff) /\ Abs(diff) >= threshold THEN 1 ELSE 0])

\* RosemountTemperatures.flag_delta_t: 1 where |TAT_DI_R - TAT_ND_R| is above
\* the threshold (an undefined difference compares False)
FlagDeltaT(frame, threshold) ==
    Put(frame, "DT_FLAG",
        [i \in 1..Len(frame.TAT_DI_R) |->
            LET diff == NumSub(frame.TAT_DI_R[i], frame.TAT_ND_R[i])
            IN IF ~IsNaN(diff) /\ Abs(diff) > threshold THEN 1 ELSE 0])

\* PPBase.get_dataframe() of RosemountTemperatures: the time series among
\* the inputs, on the 32 Hz index of the module (the 1 Hz heater flag is
\* undefined between its samples)
RosemountGetDataframe(ds) ==
    [PS_RVSM |-> ds.variables.PS_RVSM,
     Q_RVSM |-> ds.variables.Q_RVSM,
     CORCON_di_temp |-> ds.variables.CORCON_di_temp,
     CORCON_ndi_temp |-> ds.variables.CORCON_ndi_temp,
     PRTAFT_deiced_temp_flag |-> ds.variables.PRTAFT_deiced_temp_flag]

\* RosemountTemperatures.process, lines 175-182: the working frame
RosemountFrame(ds) ==
    FlagDeltaT(
        CalcDiTat(CalcDiIat(
            CalcNdiTat(CalcNdiIat(
                CalcHeatingCorrection(RosemountCalcMach(RosemountGetDataframe(ds))),
                ds), ds),
            ds), ds),
        DeltaTThreshold)

\* lines 184-190: a TAT variable with the Mach and delta-T flags
RosemountVariable(frame, name) ==
    AddFlag(AddFlag(DecadesVariable(name, frame[name]), frame.MACHNO_FLAG),
            frame.DT_FLAG)

\* RosemountTemperatures.declare_outputs
RosemountDeclare(decls) ==
    Declare(Declare(decls, "TAT_DI_R", "degK", 32), "TAT_ND_R", "degK", 32)

\* str.lower() on the sensor and circuit types of the model
LowerTherm(str) ==
    CASE str = "Thermistor" -> "thermistor"
      [] str = "V1" -> "v1"
      [] str = "V2" -> "v2"
      [] OTHER -> str

\* a declare_outputs that forgets what was declared when it is called again
ThermistorDeclareReset(ds, decls) ==
    IF DOMAIN decls # {} THEN NoDeclarations
    ELSE IF LowerTherm(DatasetGet(ds, "DITSENS")[2]) = "thermistor"
    THEN Declare(Declare(decls, "TAT_DI_R", "K", 32), "IAT_DI_R", "K", 32)
    ELSE decls

\* ThermistorV1Temperatures.declare_outputs: TAT and IAT of each housing that
\* holds a thermistor
ThermistorDeclare(ds, decls) ==
    LET di == IF LowerTherm(DatasetGet(ds, "DITSENS")[2]) = "thermistor"
              THEN Declare(Declare(decls, "TAT_DI_R", "K", 32), "IAT_DI_R", "K", 32)
              ELSE decls
    IN IF LowerTherm(DatasetGet(ds, "NDTSENS")[2]) = "thermistor"
       THEN Declare(Declare(di, "TAT_ND_R", "K", 32), "IAT_ND_R", "K", 32)
       ELSE di

\* ThermistorV1Temperatures.calc_heating_correction: the text of the
\* Rosemount method
ThermistorCalcHeatingCorrection(frame) == CalcHeatingCorrection(frame)

\* PPBase.get_dataframe() of ThermistorV1Temperatures
ThermistorGetDataframe(ds) ==
    [PS_RVSM |-> ds.variables.PS_RVSM,
     Q_RVSM |-> ds.variables.Q_RVSM,
     CORCON_fast_temp |-> ds.variables.CORCON_fast_temp,
     CORCON_padding1 |-> ds.variables.CORCON_padding1,
     PRTAFT_deiced_temp_flag |-> ds.variables.PRTAFT_deiced_temp_flag]

\* lines 177-186: the housing that holds the thermistor, "" with none
ThermistorHousing(ds) ==
    IF LowerTherm(DatasetGet(ds, "DITSENS")[2]) = "thermistor" THEN "DI"
    ELSE IF LowerTherm(DatasetGet(ds, "NDTSENS")[2]) = "thermistor" THEN "ND"
    ELSE ""

\* 'IAT_{}_R'.format(NDDI) and 'TAT_{}_R'.format(NDDI)
IatName(nddi) == IF nddi = "DI" THEN "IAT_DI_R" ELSE "IAT_ND_R"
TatName(nddi) == IF nddi = "DI" THEN "TAT_DI_R" ELSE "TAT_ND_R"

\* lines 336-345: a thermistor variable with the Mach mask
ThermistorVariable(name, data, frame) ==
    AddMask(DecadesVariable(name, data), frame.MACHNO_FLAG, "mach_out_of_range")

\* a circuit test that lets every circuit type through
IsAnyCircuit(ds) == "TH_CIRCUIT_TYPE" \in DOMAIN ds.constants

\* line 178: self.dataset['TH_CIRCUIT_TYPE'].lower() == 'v1'
IsV1Circuit(ds) == LowerTherm(DatasetGet(ds, "TH_CIRCUIT_TYPE")) = "v1"

\* ThermistorV1Temperatures.process on st = [d, outputs]: nothing is done
\* unless the circuit is a V1 and a housing holds a thermistor; it_therm is
\* the indicated temperature that the spline calibration of lines 192-328
\* gives for the counts
ThermistorProcess(ds, st, it_therm) ==
    IF ~IsV1Circuit(ds) THEN st
    ELSE IF ThermistorHousing(ds) = "" THEN st
    ELSE LET nddi  == ThermistorHousing(ds)
             frame == ThermistorCalcHeatingCorrection(
                          ThermistorCalcMach(ThermistorGetDataframe(ds)))
             tt    == TrueAirTemp(it_therm, frame.MACHNO,
                                  DatasetGet(ds, "RM_RECFAC")[nddi])
         IN [d |-> frame,
             outputs |->
                 AddOutput(AddOutput(st.outputs,
                     ThermistorVariable(IatName(nddi), it_therm, frame)),
                     ThermistorVariable(TatName(nddi), tt, frame))]

\* ---- the inputs of the temperature specification
TempLen == 3
\* (Q_RVSM, PS_RVSM) of a sample, in hPa: cruise, low level, a Mach number
\* below the floor, an undefined pitot-static pressure
PressureValues == {<<250, 1000>>, <<100, 400>>, <<1, 1000>>, <<NaN, 1000>>}
HeaterValues == {0, 1, NaN}
DiCountValues == {0, 2}
NdiCountValues == {1, NaN}
CircuitValues == {"V1", "v1", "v2", "V2"}
SensorValues == {<<"plate", "plate">>, <<"Thermistor", "plate">>, <<"plate", "thermistor">>, <<"Thermistor", "thermistor">>}
IndicatedValues == {25000, 28000}

RosemountConstants ==
    [TRFCTR |-> <<1000, 900>>,
     CALDIT |-> <<1000, 200, 10>>,
     CALNDT |-> <<700, 150, 50>>,
     NDTSENS |-> <<"ndi_serial", "plate">>,
     DITSENS |-> <<"dit_serial", "plate">>]

ThermistorConstants(circuit, sens) ==
    [RM_RECFAC |-> [DI |-> 1000, ND |-> 900],
     TH_CIRCUIT_TYPE |-> circuit,
     DITSENS |-> <<"dit_serial", sens[1]>>,
     NDTSENS |-> <<"ndi_serial", sens[2]>>]

PressureSeries(pairs, k) == [i \in 1..Len(pairs) |-> pairs[i][k]]

InitRosemount ==
    /\ pc = "rosemount_created"
    /\ \E pairs \in [1..TempLen -> PressureValues],
          heater \in [1..TempLen -> HeaterValues],
          di \in DiCountValues, ndi \in NdiCountValues :
          dataset = [constants |-> RosemountConstants,
                     variables |-> [Q_RVSM |-> PressureSeries(pairs, 1),
                                    PS_RVSM |-> PressureSeries(pairs, 2),
                                    CORCON_di_temp |-> Const(TempLen, di),
                                    CORCON_ndi_temp |-> Const(TempLen, ndi),
                                    PRTAFT_deiced_temp_flag |-> heater]]
    /\ args = None

InitThermistor ==
    /\ pc = "thermistor_created"
    /\ \E pairs \in [1..TempLen -> PressureValues],
          heater \in HeaterValues,
          circuit \in CircuitValues, sens \in SensorValues :
          dataset = [constants |-> ThermistorConstants(circuit, sens),
                     variables |-> [Q_RVSM |-> PressureSeries(pairs, 1),
                                    PS_RVSM |-> PressureSeries(pairs, 2),
                                    CORCON_fast_temp |-> Const(TempLen, 1),
                                    CORCON_padding1 |-> Const(TempLen, 2),
                                    PRTAFT_deiced_temp_flag |-> Const(TempLen, heater)]]
    /\ \E it \in IndicatedValues : args = [it_therm |-> Const(TempLen, it)]

InitTemps ==
    /\ InitRosemount \/ InitThermistor
    /\ d = None
    /\ declarations = NoDeclarations
    /\ outputs = <<>>
    /\ ret = None

\* RosemountTemperatures.declare_outputs
RosemountDeclareOutputs ==
    /\ pc = "rosemount_created"
    /\ declarations' = RosemountDeclare(declarations)
    /\ pc' = "rosemount_declared"
    /\ UNCHANGED <<dataset, d, outputs, args, ret>>

\* RosemountTemperatures.process
RosemountProcess ==
    /\ pc = "rosemount_declared"
    /\ d' = RosemountFrame(dataset)
    /\ outputs' = AddOutput(AddOutput(outputs,
                      RosemountVariable(d', "TAT_ND_R")),
                      RosemountVariable(d', "TAT_DI_R"))
    /\ pc' = "rosemount_processed"
    /\ UNCHANGED <<dataset, declarations, args, ret>>

\* ThermistorV1Temperatures.declare_outputs
ThermistorDeclareOutputs ==
    /\ pc = "thermistor_created"
    /\ declarations' = ThermistorDeclare(dataset, declarations)
    /\ pc' = "thermistor_declared"
    /\ UNCHANGED <<dataset, d, outputs, args, ret>>

\* ThermistorV1Temperatures.process
ThermistorV1Process ==
    /\ pc = "thermistor_declared"
    /\ LET r == ThermistorProcess(dataset, [d |-> d, outputs |-> outputs], args.it_therm)
       IN d' = r.d /\ outputs' = r.outputs
    /\ pc' = "thermistor_processed"
    /\ UNCHANGED <<dataset, declarations, args, ret>>

NextTemps ==
    \/ RosemountDeclareOutputs
    \/ RosemountProcess
    \/ ThermistorDeclareOutputs
    \/ ThermistorV1Process

SpecTemps == InitTemps /\ [][NextTemps]_vars

\* ---- claims about the temperature modules

\* the heater flag filled forward to sample i: the last defined value at or
\* before i, 0 before the first defined value
HeaterAt(i) ==
    LET col == dataset.variables.PRTAFT_deiced_temp_flag
        seen == {j \in 1..i : ~IsNaN(col[j])}
    IN IF seen = {} THEN 0 ELSE col[SetMax(seen)]

\* the working frame of the same flight with the heater never on
HeaterOffFrame ==
    RosemountFrame([dataset EXCEPT
        !.variables.PRTAFT_deiced_temp_flag = Const(TempLen, 0)])

\* C9: after RosemountTemperatures.process, HEATING_CORRECTION is exactly 0
\* at every sample whose forward-filled heater flag is 0 (0 before the first
\* heater value) and is nonzero at every sample whose forward-filled flag is
\* 1 (at least 0.1 K where the Mach number is defined, undefined where it is
\* not); the deiced indicated temperature is the uncorrected one minus the
\* correction, and the non-deiced indicated and true air temperatures are
\* those of the same flight with the heater never on.
C9_HeatingCorrection ==
    pc = "rosemount_processed" =>
        LET off == HeaterOffFrame
        IN /\ \A i \in 1..TempLen :
                 /\ HeaterAt(i) = 0 => d.HEATING_CORRECTION[i] = 0
                 /\ HeaterAt(i) = 1 => d.HEATING_CORRECTION[i] # 0
                 /\ HeaterAt(i) = 1 =>
                       IF IsNaN(d.MACHNO[i]) THEN IsNaN(d.HEATING_CORRECTION[i])
                       ELSE d.HEATING_CORRECTION[i] >= 10
           /\ d.DI_IAT = SeriesSub(off.DI_IAT, d.HEATING_CORRECTION)
           /\ d.ND_IAT = off.ND_IAT
           /\ d.TAT_ND_R = off.TAT_ND_R
           /\ outputs[1].name = "TAT_ND_R"
           /\ outputs[1].data = off.TAT_ND_R

\* C9 witness: a heater flag that is undefined, then 1, then undefined; the
\* correction is 0 at the first sample and a defined positive number at the
\* third, where the flag is filled forward, and the deiced temperature is
\* lowered there.
C9_Witness ==
    /\ pc = "rosemount_processed"
    /\ LET heater == dataset.variables.PRTAFT_deiced_temp_flag
       IN IsNaN(heater[1]) /\ heater[2] = 1 /\ IsNaN(heater[3])
    /\ d.HEATING_CORRECTION[1] = 0
    /\ ~IsNaN(d.HEATING_CORRECTION[3]) /\ d.HEATING_CORRECTION[3] > 0
    /\ ~IsNaN(d.DI_IAT[3]) /\ d.DI_IAT[3] < HeaterOffFrame.DI_IAT[3]

\* the Mach number and flag that sp_mach returns, before the floor
RawMach == SpMach(dataset.variables.Q_RVSM, dataset.variables.PS_RVSM)

\* a module has run calc_mach and produced its outputs
MachComputed ==
    /\ pc \in {"rosemount_processed", "thermistor_processed"}
    /\ outputs # <<>>

\* the series a module attaches to an output for the Mach validity
MachFlagOf(var) ==
    IF pc = "rosemount_processed" THEN var.flags[1]
    ELSE MaskOf(var, "mach_out_of_range")

\* C10 as stated: after calc_mach every MACHNO sample is defined and at least
\* 0.05, a sample computed below 0.05 is exactly 0.05, a sample at or above
\* 0.05 is unchanged, and MACHNO_FLAG is the flag computed before the floor.
C10_MachNeverBelowFloor ==
    MachComputed =>
        LET raw == RawMach
        IN \A i \in 1..TempLen :
              /\ ~IsNaN(d.MACHNO[i])
              /\ d.MACHNO[i] >= MachFloor
              /\ (~IsNaN(raw.mach[i]) /\ raw.mach[i] < MachFloor)
                    => d.MACHNO[i] = MachFloor
              /\ (~IsNaN(raw.mach[i]) /\ raw.mach[i] >= MachFloor)
                    => d.MACHNO[i] = raw.mach[i]
              /\ d.MACHNO_FLAG[i] = raw.flag[i]

\* C10, amended: after calc_mach every defined MACHNO sample is at least
\* 0.05: a sample computed below 0.05 is exactly 0.05, a sample at or above
\* 0.05 is unchanged, and a sample that sp_mach leaves undefined stays
\* undefined; MACHNO_FLAG is the flag computed before the floor, and every
\* output carries it for all samples.
C10_DefinedMachFloored ==
    MachComputed =>
        LET raw == RawMach
        IN /\ \A i \in 1..TempLen :
                 /\ d.MACHNO[i] = IF IsNaN(raw.mach[i]) THEN NaN
                                  ELSE Max(raw.mach[i], MachFloor)
                 /\ d.MACHNO_FLAG[i] = raw.flag[i]
           /\ \A k \in 1..Len(outputs) :
                 /\ MachFlagOf(outputs[k]) = raw.flag
                 /\ Len(outputs[k].data) = TempLen

\* C10 witness: a thermistor flight with a sample floored to 0.05 and still
\* flagged, a sample above the floor left as computed, and a sample whose
\* Mach number is undefined.
C10_Witness ==
    /\ pc = "thermistor_processed"
    /\ outputs # <<>>
    /\ LET raw == RawMach
       IN \E i, j, k \in 1..TempLen :
             /\ ~IsNaN(raw.mach[i]) /\ raw.mach[i] < MachFloor
             /\ d.MACHNO[i] = MachFloor /\ d.MACHNO_FLAG[i] = 1
             /\ raw.mach[j] > MachFloor /\ d.MACHNO[j] = raw.mach[j]
             /\ IsNaN(d.MACHNO[k])

\* ---- claims about the delta-T flag

\* C11: after RosemountTemperatures.process, DT_FLAG is 1 at a sample exactly
\* when both true air temperatures are defined and |TAT_DI_R - TAT_ND_R| is
\* strictly above the threshold (1 K), and 0 otherwise; the outputs are
\* TAT_ND_R and TAT_DI_R, and each carries the Mach flag and then this flag.
C11_DeltaFlag ==
    pc = "rosemount_processed" =>
        /\ \A i \in 1..TempLen :
              d.DT_FLAG[i] =
                  IF /\ ~IsNaN(d.TAT_DI_R[i])
                     /\ ~IsNaN(d.TAT_ND_R[i])
                     /\ \/ d.TAT_DI_R[i] - d.TAT_ND_R[i] > DeltaTThreshold
                        \/ d.TAT_ND_R[i] - d.TAT_DI_R[i] > DeltaTThreshold
                  THEN 1 ELSE 0
        /\ Len(outputs) = 2
        /\ outputs[1].name = "TAT_ND_R" /\ outputs[1].data = d.TAT_ND_R
        /\ outputs[2].name = "TAT_DI_R" /\ outputs[2].data = d.TAT_DI_R
        /\ \A k \in 1..2 : outputs[k].flags = <<d.MACHNO_FLAG, d.DT_FLAG>>

\* C11 witness: one flight with a sample whose temperatures differ by more
\* than 1 K (flagged), a sample where they differ by exactly 1 K (not
\* flagged) and a sample where a temperature is undefined (not flagged).
C11_Witness ==
    /\ pc = "rosemount_processed"
    /\ \E i, j, k \in 1..TempLen :
          /\ ~IsNaN(d.TAT_DI_R[i]) /\ ~IsNaN(d.TAT_ND_R[i])
          /\ d.TAT_ND_R[i] - d.TAT_DI_R[i] > DeltaTThreshold
          /\ d.DT_FLAG[i] = 1
          /\ d.TAT_DI_R[j] - d.TAT_ND_R[j] = DeltaTThreshold
          /\ d.DT_FLAG[j] = 0
          /\ IsNaN(d.TAT_DI_R[k]) /\ d.DT_FLAG[k] = 0

(***************************************************************************)
(* ppodd/utils/utils.py : flagged_avg                                      *)
(* The frame df is the variable d, with the columns flag and data; the     *)
(* data are in units of 1/3600 so that every mean and every interpolated   *)
(* value of the model is a whole number.                                   *)
(***************************************************************************)

\* '{}_{}'.format(data_col, flag_col) for the columns of the model
DefaultOutName == "data_flag"

\* series.fillna(value)
FillNa(col, value) == [i \in 1..Len(col) |-> IF IsNaN(col[i]) THEN value ELSE col[i]]

\* series.fillna(method='bfill') at sample i: the next defined value at or
\* after i, undefined after the last defined value
RECURSIVE BfillAt(_, _)
BfillAt(col, i) ==
    IF ~IsNaN(col[i]) THEN col[i]
    ELSE IF i = Len(col) THEN NaN
    ELSE BfillAt(col, i + 1)

\* lines 98-101: the flag is filled with fill_nan when it is given (a
\* sequence of one value), and backfilled when it is not
FillFlag(col, fill_nan) ==
    IF fill_nan # None THEN FillNa(col, fill_nan[1])
    ELSE [i \in 1..Len(col) |-> BfillAt(col, i)]

\* lines 105-107: the run number of every sample whose flag is flag_value,
\* undefined elsewhere (an undefined flag differs from every value)
AvgGroups(flag, flag_value) ==
    LET groups == MaskGroups(flag)
    IN [i \in 1..Len(flag) |->
            IF ~IsNaN(flag[i]) /\ flag[i] = flag_value THEN groups[i] ELSE NaN]

\* the keys of df.groupby(groups): the defined run numbers
GroupKeys(groups) == {groups[i] : i \in 1..Len(groups)} \ {NaN}

\* the positions of the rows of one group, in order
GroupRows(groups, key) ==
    LET rows == {i \in 1..Len(groups) : groups[i] = key}
    IN [k \in 1..Cardinality(rows) |-> SetMin(rows) + k - 1]

\* the positions (from 0) that the slice [start:stop] selects in a sequence
\* of length n: a negative bound counts from the end
SliceBound(b, n) == IF b < 0 THEN Max(n + b, 0) ELSE Min(b, n)
SlicePositions(start, stop, n) ==
    {k \in 0..(n - 1) : SliceBound(start, n) <= k /\ k < SliceBound(stop, n)}

\* the sum of the values of col at the given rows
RECURSIVE SumRows(_, _)
SumRows(col, rows) ==
    IF rows = {} THEN 0
    ELSE col[SetMin(rows)] + SumRows(col, rows \ {SetMin(rows)})

\* series.mean() over the values at the given rows: undefined values are
\* skipped and the mean of nothing is undefined
SeriesMean(col, rows) ==
    LET defined == {i \in rows : ~IsNaN(col[i])}
    IN IF defined = {} THEN NaN ELSE SumRows(col, defined) \div Cardinality(defined)

\* x[data_col].iloc[skip_start:len(x)-skip_end].mean() for one group x
GroupMean(data, rows, skip_start, skip_end) ==
    LET n == Len(rows)
    IN SeriesMean(data, {rows[k + 1] : k \in SlicePositions(skip_start, n - skip_end, n)})

\* (mutant of GroupMid: the mean is placed at the first sample of the group)
GroupMidFirst(rows) == rows[1]

\* x.index[int(len(x) / 2)] for one group x
GroupMid(rows) == rows[(Len(rows) \div 2) + 1]

\* lines 116-119: means, as the set of (index, value) pairs of the series
Means(data, groups, skip_start, skip_end) ==
    {[index |-> GroupMid(GroupRows(groups, key)),
      value |-> GroupMean(data, GroupRows(groups, key), skip_start, skip_end)] :
        key \in GroupKeys(groups)}

\* lines 130-132: undefined everywhere, then the means at their indices
PlaceMeans(n, means) ==
    [i \in 1..n |->
        IF \E m \in means : m.index = i
        THEN (CHOOSE m \in means : m.index = i).value
        ELSE NaN]

\* series.interpolate() at sample i: linear between the defined values on
\* either side, the last defined value after the last of them, undefined
\* before the first
InterpolateAt(col, i) ==
    LET before == {j \in 1..i : ~IsNaN(col[j])}
        after  == {j \in i..Len(col) : ~IsNaN(col[j])}
    IN IF before = {} THEN NaN
       ELSE IF after = {} THEN col[SetMax(before)]
       ELSE LET p == SetMax(before)
                q == SetMin(after)
            IN IF p = q THEN col[p]
               ELSE col[p] + ((col[q] - col[p]) * (i - p)) \div (q - p)

\* lines 123-128: the means reindexed on the index of df and interpolated
InterpolateMeans(n, means) ==
    LET placed == PlaceMeans(n, means)
    IN [i \in 1..n |-> InterpolateAt(placed, i)]

\* flagged_avg(df, 'flag', 'data', fill_nan, flag_value, skip_start,
\* skip_end, interp=interp): the frame after the call
FlaggedAvg(df, fill_nan, flag_value, skip_start, skip_end, interp) ==
    LET flag   == FillFlag(df.flag, fill_nan)
        groups == AvgGroups(flag, flag_value)
        means  == Means(df.data, groups, skip_start, skip_end)
        n      == Len(df.data)
    IN Put([df EXCEPT !.flag = flag], DefaultOutName,
           IF interp THEN InterpolateMeans(n, means) ELSE PlaceMeans(n, means))

\* with no run of flag_value the group-by is empty; what apply() and the
\* Series constructor make of it depends on the pandas in use: an output
\* that is undefined everywhere, or an exception
EmptyOutcomes == {"none", "ValueError"}

\* ---- the inputs of the averaging specification
AvgLen == 5
\* 1/3600 of the unit of the data
DataUnit == 3600
AvgFlagValues == {0, 1, NaN}
\* the data: a ramp 1, 2, 3, ..., a constant, a series without order, and the
\* ramp with an undefined second sample
DataKinds == {"ramp", "flat", "mixed", "gap"}
DataSeries(kind) ==
    [i \in 1..AvgLen |->
        CASE kind = "ramp" -> i * DataUnit
          [] kind = "flat" -> 2 * DataUnit
          [] kind = "mixed" -> ((i * i) % 7) * DataUnit
          [] kind = "gap" -> IF i = 2 THEN NaN ELSE i * DataUnit]
FillNanValues == {None, <<0>>}
SkipStartValues == {0, 1, 2}
SkipEndValues == {0, 1, 3}

InitAvg ==
    /\ pc = "avg_start"
    /\ \E flag \in [1..AvgLen -> AvgFlagValues], kind \in DataKinds,
          fill_nan \in FillNanValues, skip_start \in SkipStartValues,
          skip_end \in SkipEndValues, interp \in BOOLEAN :
          args = [df |-> [flag |-> flag, data |-> DataSeries(kind)],
                  fill_nan |-> fill_nan, flag_value |-> 1,
                  skip_start |-> skip_start, skip_end |-> skip_end,
                  interp |-> interp]
    /\ dataset = None /\ d = None /\ declarations = None
    /\ outputs = None /\ ret = None

\* flagged_avg(df, 'flag', 'data', ...): df is modified in place
CallFlaggedAvg ==
    /\ pc = "avg_start"
    /\ LET df == FlaggedAvg(args.df, args.fill_nan, args.flag_value,
                            args.skip_start, args.skip_end, args.interp)
       IN IF \E i \in 1..AvgLen : df.flag[i] = args.flag_value
          THEN d' = df /\ ret' = "none" /\ pc' = "avg_done"
          ELSE \E outcome \in EmptyOutcomes :
                  /\ ret' = outcome
                  /\ IF outcome = "none"
                     THEN d' = df /\ pc' = "avg_done"
                     ELSE d' = [args.df EXCEPT !.flag = df.flag] /\ pc' = "avg_raised"
    /\ UNCHANGED <<dataset, declarations, outputs, args>>

NextAvg == CallFlaggedAvg

SpecAvg == InitAvg /\ [][NextAvg]_vars

\* ---- claims about flagged_avg

\* [a, b] is a maximal run of samples of flag that equal value
IsFlagRun(flag, value, a, b) ==
    /\ a <= b
    /\ \A i \in a..b : flag[i] = value
    /\ a = 1 \/ flag[a - 1] # value
    /\ b = Len(flag) \/ flag[b + 1] # value

\* the midpoint of the run [a, b]: position floor(len / 2) within the run
RunMid(a, b) == a + ((b - a + 1) \div 2)

\* the output column of the call
AvgOut == d[DefaultOutName]

\* C12 as stated: for every maximal run of the (filled) flag at flag_value,
\* the mean that flagged_avg writes at the midpoint of the run is the mean of
\* exactly the data of the run without its first skip_start and its last
\* skip_end samples (undefined when none is left).
C12_MeanOfTrimmedRun ==
    (pc = "avg_done" /\ ~args.interp) =>
        \A a, b \in 1..AvgLen :
            IsFlagRun(d.flag, args.flag_value, a, b) =>
                AvgOut[RunMid(a, b)] =
                    SeriesMean(args.df.data, (a + args.skip_start)..(b - args.skip_end))

\* C13: with interp=False, every sample that is not the midpoint (position
\* floor(len / 2)) of a maximal run of the (filled) flag at flag_value is
\* undefined in the output column, the midpoint of every run holds the mean
\* that flagged_avg computes for the run, and the data column is as it was.
C13_MeanAtMidpointOnly ==
    (pc = "avg_done" /\ ~args.interp) =>
        /\ \A a, b \in 1..AvgLen :
              IsFlagRun(d.flag, args.flag_value, a, b) =>
                  /\ AvgOut[RunMid(a, b)] =
                        GroupMean(args.df.data, [k \in 1..(b - a + 1) |-> a + k - 1],
                                  args.skip_start, args.skip_end)
                  /\ \A i \in a..b : i # RunMid(a, b) => IsNaN(AvgOut[i])
        /\ \A i \in 1..AvgLen : d.flag[i] # args.flag_value => IsNaN(AvgOut[i])
        /\ d.data = args.df.data

\* C13 witness: two runs, one of them of three samples or more, each with a
\* defined mean at its midpoint and nothing at its other samples.
C13_Witness ==
    /\ pc = "avg_done" /\ ~args.interp
    /\ \E a, b, e, f \in 1..AvgLen :
          /\ IsFlagRun(d.flag, args.flag_value, a, b)
          /\ IsFlagRun(d.flag, args.flag_value, e, f)
          /\ b < e /\ b - a >= 2
          /\ ~IsNaN(AvgOut[RunMid(a, b)]) /\ IsNaN(AvgOut[a]) /\ IsNaN(AvgOut[b])
          /\ ~IsNaN(AvgOut[RunMid(e, f)])

\* C14 as stated: when fill_nan is not given, the undefined samples of the
\* flag are filled with 0, so the flag after the call is the flag with 0 for
\* NaN and the output is that of the call with fill_nan=0.
C14_DefaultFillIsZero ==
    (pc = "avg_done" /\ args.fill_nan = None) =>
        /\ d.flag = FillNa(args.df.flag, 0)
        /\ AvgOut = FlaggedAvg(args.df, <<0>>, args.flag_value, args.skip_start,
                               args.skip_end, args.interp)[DefaultOutName]

(***************************************************************************)
(* ppodd/utils/utils.py : slrs                                             *)
(* The inputs are 1 Hz series; timestamps are whole seconds, a frame is    *)
(* the sequence of its rows [t, ps, roll] and a segment is the sequence of *)
(* its timestamps.  Pressures are in hPa and roll in degrees.              *)
(***************************************************************************)

\* the elements of a finite set of integers, in ascending order
SortedSeq(S) ==
    [k \in 1..Cardinality(S) |-> CHOOSE x \in S : Cardinality({y \in S : y <= x}) = k]

\* seq[start:stop] in Python: a negative bound counts from the end
IlocSlice(seq, start, stop) ==
    LET lo == SliceBound(start, Len(seq))
        hi == SliceBound(stop, Len(seq))
    IN [k \in 1..Max(hi - lo, 0) |-> seq[lo + k]]

\* lines 170-178: the 1 Hz frame without the rows on the ground
\* (WOW_IND == 1, set to NaN) and the rows with an undefined value
SlrsFrame(wow, ps, roll) ==
    LET kept == {t \in 1..Len(wow) :
                    /\ ~IsNaN(wow[t]) /\ wow[t] # 1
                    /\ ~IsNaN(ps[t]) /\ ~IsNaN(roll[t])}
        times == SortedSeq(kept)
    IN [k \in 1..Len(times) |->
            [t |-> times[k], ps |-> ps[times[k]], roll |-> roll[times[k]]]]

\* the sum of f over the integers lo..hi
RECURSIVE SumOver(_, _, _)
SumOver(f, lo, hi) == IF lo > hi THEN 0 ELSE f[lo] + SumOver(f, lo + 1, hi)

\* lines 181-183: rolling(window_size, center=True).std() < ps_lim, with the
\* sample standard deviation s of the window written without a root:
\* s^2 = (W * sum(x^2) - sum(x)^2) / (W * (W - 1)); False where the window
\* leaves the frame
PsC(frame, window, ps_lim) ==
    LET x  == [k \in 1..Len(frame) |-> frame[k].ps]
        x2 == [k \in 1..Len(frame) |-> frame[k].ps * frame[k].ps]
    IN [i \in 1..Len(frame) |->
            /\ RollLo(i, window) >= 1
            /\ RollHi(i, window) <= Len(frame)
            /\ LET s  == SumOver(x, RollLo(i, window), RollHi(i, window))
                   s2 == SumOver(x2, RollLo(i, window), RollHi(i, window))
               IN window * s2 - s * s < ps_lim * ps_lim * window * (window - 1)]

\* ROLL_GIN.rolling(roll_mean).mean(), times roll_mean: the sum of the last
\* roll_mean rows, undefined for the first roll_mean - 1 rows
RollMeanTimes(frame, roll_mean) ==
    LET x == [k \in 1..Len(frame) |-> frame[k].roll]
    IN [i \in 1..Len(frame) |->
            IF i < roll_mean THEN NaN ELSE SumOver(x, i - roll_mean + 1, i)]

\* lines 186-188: the peak-to-peak range of the rolling mean over the
\* centred window is below roll_lim; False where the window leaves the
\* frame or holds an undefined mean
RollC(frame, window, roll_mean, roll_lim) ==
    LET m == RollMeanTimes(frame, roll_mean)
    IN [i \in 1..Len(frame) |->
            /\ RollLo(i, window) >= 1
            /\ RollHi(i, window) <= Len(frame)
            /\ LET w == {m[j] : j \in RollLo(i, window)..RollHi(i, window)}
               IN NaN \notin w /\ Ptp(w) < roll_lim * roll_mean]

\* line 192: _SLR = (PS_C & ROLL_C).astype(int)
SlrColumn(frame, window, ps_lim, roll_mean, roll_lim) ==
    LET ps_c   == PsC(frame, window, ps_lim)
        roll_c == RollC(frame, window, roll_mean, roll_lim)
    IN [i \in 1..Len(frame) |-> IF ps_c[i] /\ roll_c[i] THEN 1 ELSE 0]

\* line 193: _SLRCNT = (_SLR.diff(1) != 0).astype('int').cumsum()
SlrCount(slr) ==
    [i \in 1..Len(slr) |->
        Cardinality({j \in 1..i : j = 1 \/ slr[j] # slr[j - 1]})]

\* np.split(ary, sections): ZeroDivisionError with no section, else
\* sections pieces of equal length
NpSplit(ary, sections) ==
    IF sections = 0 THEN [raised |-> "ZeroDivisionError", pieces |-> <<>>]
    ELSE IF Len(ary) % sections # 0 THEN [raised |-> "ValueError", pieces |-> <<>>]
    ELSE LET size == Len(ary) \div sections
         IN [raised |-> "none",
             pieces |-> [k \in 1..sections |->
                            [j \in 1..size |-> ary[(k - 1) * size + j]]]]

\* _add_slrs(slrs, group), lines 148-160, on acc = [raised, slrs]; gdf is the
\* sequence of the timestamps of the group and max_length is None or a
\* sequence of one value
AddSlrs(acc, gdf, min_length, max_length) ==
    IF max_length = None THEN [acc EXCEPT !.slrs = Append(@, gdf)]
    ELSE LET num_groups == Len(gdf) \div max_length[1]
             last_index == -(Len(gdf) % max_length[1])
             split == NpSplit(IlocSlice(gdf, 0, last_index), num_groups)
             rem == IlocSlice(gdf, last_index, Len(gdf))
         IN IF split.raised # "none" THEN [acc EXCEPT !.raised = split.raised]
            ELSE [acc EXCEPT !.slrs =
                     IF Len(rem) >= min_length
                     THEN Append(@ \o split.pieces, rem)
                     ELSE @ \o split.pieces]

\* the timestamps of the rows of the frame whose _SLRCNT is key
SlrGroup(frame, count, key) ==
    LET rows == SortedSeq({i \in 1..Len(frame) : count[i] = key})
    IN [k \in 1..Len(rows) |-> frame[rows[k]].t]

\* lines 196-203, for the groups 1..key in order: a group that fails the
\* tests (_SLR.mean() == 0) or is shorter than window_size is skipped, and
\* an exception in _add_slrs ends the loop
RECURSIVE SlrsLoop(_, _, _, _, _, _)
SlrsLoop(frame, slr, count, key, min_length, max_length) ==
    IF key = 0 THEN [raised |-> "none", slrs |-> <<>>]
    ELSE LET acc == SlrsLoop(frame, slr, count, key - 1, min_length, max_length)
             gdf == SlrGroup(frame, count, key)
             passes == \E i \in 1..Len(frame) : count[i] = key /\ slr[i] = 1
         IN IF acc.raised # "none" THEN acc
            ELSE IF ~passes THEN acc
            ELSE IF Len(gdf) < min_length THEN acc
            ELSE AddSlrs(acc, gdf, min_length, max_length)

\* i.asfreq(...).index for a segment at freq = 1: every second from the
\* first to the last timestamp of the segment
AsFreqIndex(segment) ==
    [k \in 1..(segment[Len(segment)] - segment[1] + 1) |-> segment[1] + k - 1]

\* asfreq on a frame without rows: an empty index, or ValueError where
\* pandas builds the date range from the missing first and last timestamps
EmptyAsFreqOutcomes == {"none", "ValueError"}

\* line 205: the index of every segment; empty_outcome is what asfreq makes
\* of an empty segment
SlrsIndices(slrs, empty_outcome) ==
    IF (\E k \in 1..Len(slrs) : slrs[k] = <<>>) /\ empty_outcome # "none"
    THEN [raised |-> empty_outcome, slrs |-> <<>>]
    ELSE [raised |-> "none",
          slrs |-> [k \in 1..Len(slrs) |->
                       IF slrs[k] = <<>> THEN <<>> ELSE AsFreqIndex(slrs[k])]]

\* slrs(wow, ps, roll, min_length, max_length, roll_lim, ps_lim, roll_mean)
Slrs(wow, ps, roll, min_length, max_length, roll_lim, ps_lim, roll_mean, empty_outcome) ==
    IF max_length # None /\ max_length[1] < min_length
    THEN [raised |-> "ValueError", slrs |-> <<>>]
    ELSE LET frame == SlrsFrame(wow, ps, roll)
             slr   == SlrColumn(frame, min_length, ps_lim, roll_mean, roll_lim)
             count == SlrCount(slr)
             found == SlrsLoop(frame, slr, count,
                               IF Len(frame) = 0 THEN 0 ELSE count[Len(frame)],
                               min_length, max_length)
         IN IF found.raised # "none" THEN found
            ELSE SlrsIndices(found.slrs, empty_outcome)

\* ---- the inputs of the segmentation specification
SlrsLen == 6
\* a second of the flight: steady, with a pressure step, with a roll step, on
\* the ground, or with an undefined pressure
SecondKinds == {"steady", "ps_step", "roll_step", "ground", "gap"}
SlrsWow(kinds) == [t \in 1..Len(kinds) |-> IF kinds[t] = "ground" THEN 1 ELSE 0]
SlrsPs(kinds) ==
    [t \in 1..Len(kinds) |->
        CASE kinds[t] = "gap" -> NaN
          [] kinds[t] = "ps_step" -> 1010
          [] OTHER -> 1000]
SlrsRoll(kinds) == [t \in 1..Len(kinds) |-> IF kinds[t] = "roll_step" THEN 10 ELSE 0]
MinLengthValues == {2}
MaxLengthValues == {None, <<1>>, <<2>>, <<3>>}
RollMeanValues == {1, 2}
\* the defaults roll_lim=3 and ps_lim=2
DefaultRollLim == 3
DefaultPsLim == 2

InitSlrs ==
    /\ pc = "slrs_start"
    /\ \E kinds \in [1..SlrsLen -> SecondKinds], min_length \in MinLengthValues,
          max_length \in MaxLengthValues, roll_mean \in RollMeanValues :
          args = [wow |-> SlrsWow(kinds), ps |-> SlrsPs(kinds), roll |-> SlrsRoll(kinds),
                  min_length |-> min_length, max_length |-> max_length,
                  roll_lim |-> DefaultRollLim, ps_lim |-> DefaultPsLim,
                  roll_mean |-> roll_mean]
    /\ dataset = None /\ d = None /\ declarations = None
    /\ outputs = None /\ ret = None

\* slrs(wow, ps, roll, min_length=..., max_length=..., roll_mean=...)
CallSlrs ==
    /\ pc = "slrs_start"
    /\ \E empty_outcome \in EmptyAsFreqOutcomes :
          LET r == Slrs(args.wow, args.ps, args.roll, args.min_length,
                        args.max_length, args.roll_lim, args.ps_lim,
                        args.roll_mean, empty_outcome)
          IN /\ ret' = r
             /\ pc' = IF r.raised = "none" THEN "slrs_done" ELSE "slrs_raised"
    /\ UNCHANGED <<dataset, d, declarations, outputs, args>>

NextSlrs == CallSlrs

SpecSlrs == InitSlrs /\ [][NextSlrs]_vars

\* ---- claims about slrs

\* C15 as stated: every segment that slrs returns, with or without
\* max_length, covers at least min_length one-second samples; none is empty
\* or shorter than min_length.
C15_SegmentsAtLeastMinLength ==
    pc = "slrs_done" =>
        \A k \in 1..Len(ret.slrs) : Len(ret.slrs[k]) >= args.min_length

(***************************************************************************)
(* ppodd/pod/p_solar.py : SolarAngles and ppodd/pod/p_winds_gin.py :       *)
(* GINWinds.  Timestamps are in quarters of a second; an input series is   *)
(* a record [index, values].  Speeds are in cm/s, angles in whole degrees, *)
(* temperatures in hundredths of a kelvin, Mach numbers, scale factors and *)
(* sines in thousandths.                                                   *)
(***************************************************************************)

\* quarters of a second per second
TicksPerSecond == 4

\* Timestamp.round('1S'): the nearest whole second, a half going to the even
\* second
Round1S(t) ==
    LET q == t \div TicksPerSecond
        r == t % TicksPerSecond
    IN IF 2 * r < TicksPerSecond THEN q * TicksPerSecond
       ELSE IF 2 * r > TicksPerSecond THEN (q + 1) * TicksPerSecond
       ELSE IF q % 2 = 0 THEN q * TicksPerSecond
       ELSE (q + 1) * TicksPerSecond

\* pd.date_range(start, end, freq='1S')
DateRange(start, end) ==
    [k \in 1..(((end - start) \div TicksPerSecond) + 1) |->
        start + (k - 1) * TicksPerSecond]

\* the target index of SolarAngles.process (lines 41-43) and of
\* GINWinds.process (lines 99-104), from the index of the reference input
TargetIndex(raw_index) ==
    DateRange(Round1S(raw_index[1]), Round1S(raw_index[Len(raw_index)]))

\* PPBase.get_dataframe(method='onto', index=index, limit=limit) for one
\* input: at every time of the index the last sample at or before it, and
\* undefined with no sample within limit seconds before it
Onto(series, index, limit) ==
    [k \in 1..Len(index) |->
        LET before == {j \in 1..Len(series.index) :
                          /\ series.index[j] <= index[k]
                          /\ index[k] - series.index[j] <= limit * TicksPerSecond}
        IN IF before = {} THEN NaN ELSE series.values[SetMax(before)]]

\* the limit of get_dataframe when none is given
DefaultLimit == 1

\* pysolar get_altitude(lat, lon, t) and get_azimuth(lat, lon, t): the
\* angles that the solar ephemeris gives for the place and time, undefined
\* for an undefined place
SolarAngle(lat, lon, angle) == IF IsNaN(lat) \/ IsNaN(lon) THEN NaN ELSE angle

\* SolarAngles.process on the dataset: the frame on the one-second index, and
\* the outputs SOL_ZEN = 90 - altitude and SOL_AZIM
SolarFrame(ds) ==
    LET index == TargetIndex(ds.variables.LAT_GIN.index)
    IN [index |-> index,
        LAT_GIN |-> Onto(ds.variables.LAT_GIN, index, DefaultLimit),
        LON_GIN |-> Onto(ds.variables.LON_GIN, index, DefaultLimit)]

SolarOutputs(frame, outs, ephemeris) ==
    LET zenith  == [k \in 1..Len(frame.index) |->
                       NumSub(90, SolarAngle(frame.LAT_GIN[k], frame.LON_GIN[k],
                                             ephemeris.altitude))]
        azimuth == [k \in 1..Len(frame.index) |->
                       SolarAngle(frame.LAT_GIN[k], frame.LON_GIN[k],
                                  ephemeris.azimuth)]
    IN AddOutput(AddOutput(outs,
           DecadesVariable("SOL_ZEN", zenith)),
           DecadesVariable("SOL_AZIM", azimuth))

\* SolarAngles.declare_outputs
SolarDeclare(decls) ==
    Declare(Declare(decls, "SOL_AZIM", "degree", 1), "SOL_ZEN", "degree", 1)

\* ROLL_THRESH = 2
ROLL_THRESH == 2

\* the limit that GINWinds.process passes to get_dataframe
GinLimit == 50

\* np.cos(np.deg2rad(deg)) in thousandths, for the multiples of 30 degrees
CosDeg(deg) ==
    LET a == deg % 360
    IN CASE a \in {0} -> 1000
         [] a \in {30, 330} -> 866
         [] a \in {60, 300} -> 500
         [] a \in {90, 270} -> 0
         [] a \in {120, 240} -> -500
         [] a \in {150, 210} -> -866
         [] a \in {180} -> -1000

\* np.sin(np.deg2rad(deg)) in thousandths: sin(x) = cos(x - 90 degrees)
SinDeg(deg) == CosDeg(deg - 90)

\* the sign of the float np.cos(np.deg2rad(deg)), which is not zero where
\* CosDeg is: 6.1e-17 at 90 and -90 degrees, -1.8e-16 at 270 and -270
CosDegSign(deg) ==
    IF CosDeg(deg) # 0 THEN Sign(CosDeg(deg))
    ELSE IF Abs(deg) % 360 = 90 THEN 1 ELSE -1

\* the sign of the float np.sin(np.deg2rad(deg)), for -360..360 degrees: zero
\* at 0 degrees only; 1.2e-16 at 180 degrees and -2.4e-16 at 360, and the
\* sine is odd
SinDegSign(deg) ==
    IF SinDeg(deg) # 0 THEN Sign(SinDeg(deg))
    ELSE IF deg = 0 THEN 0
    ELSE IF Abs(deg) % 360 = 180 THEN Sign(deg) ELSE -Sign(deg)

\* 661.4788 * 0.514444, the speed of sound at 288.15 K, in units of 0.1 mm/s
SpeedOfSound == 3402938

\* 288.15 K in hundredths of a kelvin
StandardTemp == 28815

\* the coefficients 4.0739, 32.1681 and 52.7136 of delta_tas, in units of
\* 0.1 mm/s
DeltaTas0 == 40739
DeltaTas1 == 321681
DeltaTas2 == 527136

\* correct_tas_rvsm, lines 68-70, on one sample: the corrected true airspeed
\* in cm/s
CorrectedTas(tas_rvsm, dit, tas_scale_factor) ==
    IF IsNaN(tas_rvsm) \/ IsNaN(dit) \/ dit < 0 THEN NaN
    ELSE IF dit = 0
    THEN \* mach is tas_rvsm / 0: delta_tas is inf for a negative airspeed and
         \* undefined (inf - inf, or 0 / 0) otherwise
         (IF tas_rvsm < 0 THEN NumMul(NegInf, tas_scale_factor) ELSE NaN)
    ELSE LET root == Sqrt(RoundDiv(dit * Scale, StandardTemp) * Scale)
             mach == RoundDiv(RoundDiv(tas_rvsm * 100000, SpeedOfSound) * Scale, root)
             delta_tas == DeltaTas0 - RoundDiv(DeltaTas1 * mach, Scale)
                              + RoundDiv(DeltaTas2 * RoundDiv(mach * mach, Scale), Scale)
         IN RoundDiv((tas_rvsm - RoundDiv(delta_tas, 100)) * tas_scale_factor, Scale)

\* a correction that starts from the airspeed corrected before, if any
CorrectTasRvsmAgain(frame, tas_scale_factor) ==
    LET base == IF "TAS" \in DOMAIN frame THEN frame.TAS ELSE frame.TAS_RVSM
    IN Put(frame, "TAS",
           [k \in 1..Len(base) |->
               CorrectedTas(base[k], frame.TAT_DI_R[k], tas_scale_factor)])

\* GINWinds.correct_tas_rvsm(tas_scale_factor)
CorrectTasRvsm(frame, tas_scale_factor) ==
    Put(frame, "TAS",
        [k \in 1..Len(frame.TAS_RVSM) |->
            CorrectedTas(frame.TAS_RVSM[k], frame.TAT_DI_R[k], tas_scale_factor)])

\* lines 79-83: GINWIND_TASCOR when the dataset has it, 1 on KeyError
TasScaleFactor(ds) ==
    IF "GINWIND_TASCOR" \in DOMAIN ds.constants THEN ds.constants.GINWIND_TASCOR
    ELSE Scale

\* a speed times a sine or cosine in thousandths, sign the sign of the float
\* sine or cosine
Project(factor, sign, speed) ==
    IF IsNaN(factor) \/ IsNaN(speed) THEN NaN
    ELSE IF IsInf(speed) THEN NumMul(sign, speed)
    ELSE RoundDiv(factor * speed, Scale)

\* GINWinds.calc_noturb_wspd
CalcNoturbWspd(frame, ds) ==
    LET corrected == CorrectTasRvsm(frame, TasScaleFactor(ds))
        hdg == SeriesShift(DatasetGet(ds, "GIN_HDG_OFFSET"), corrected.HDG_GIN)
        air_spd_east ==
            [k \in 1..Len(hdg) |->
                IF IsNaN(hdg[k]) THEN NaN
                ELSE Project(CosDeg(hdg[k] - 90), CosDegSign(hdg[k] - 90),
                             corrected.TAS[k])]
        air_spd_north ==
            [k \in 1..Len(hdg) |->
                IF IsNaN(hdg[k]) THEN NaN
                ELSE Project(SinDeg(hdg[k] - 90), SinDegSign(hdg[k] - 90),
                             corrected.TAS[k])]
    IN Put(Put([corrected EXCEPT !.HDG_GIN = hdg],
           "U_NOTURB", SeriesSub(corrected.VELE_GIN, air_spd_east)),
           "V_NOTURB", [k \in 1..Len(hdg) |->
                           NumAdd(corrected.VELN_GIN[k], air_spd_north[k])])

\* lines 99-106: the frame of GINWinds on the one-second index of TAS_RVSM
GinGetDataframe(ds) ==
    LET index == TargetIndex(ds.variables.TAS_RVSM.index)
    IN [index |-> index,
        VELE_GIN |-> Onto(ds.variables.VELE_GIN, index, GinLimit),
        VELN_GIN |-> Onto(ds.variables.VELN_GIN, index, GinLimit),
        HDG_GIN |-> Onto(ds.variables.HDG_GIN, index, GinLimit),
        TAS_RVSM |-> Onto(ds.variables.TAS_RVSM, index, GinLimit),
        ROLL_GIN |-> Onto(ds.variables.ROLL_GIN, index, GinLimit),
        TAT_DI_R |-> Onto(ds.variables.TAT_DI_R, index, GinLimit)]

\* lines 108-109
GinFrame(ds) == CalcNoturbWspd(CorrectTasRvsm(GinGetDataframe(ds), Scale), ds)

\* a roll mask that also takes a roll of exactly the threshold
RollMaskInclusive(roll) ==
    [k \in 1..Len(roll) |-> ~IsNaN(roll[k]) /\ Abs(roll[k]) >= ROLL_THRESH]

\* self.d.ROLL_GIN.abs() > ROLL_THRESH: False for an undefined roll
RollMask(roll) ==
    [k \in 1..Len(roll) |-> ~IsNaN(roll[k]) /\ Abs(roll[k]) > ROLL_THRESH]

\* lines 111-120: U_NOTURB and V_NOTURB, each with the roll mask
GinOutputs(frame, outs) ==
    AddOutput(AddOutput(outs,
        AddMask(DecadesVariable("U_NOTURB", frame.U_NOTURB),
                RollMask(frame.ROLL_GIN), "roll exceeds threshold")),
        AddMask(DecadesVariable("V_NOTURB", frame.V_NOTURB),
                RollMask(frame.ROLL_GIN), "roll exceeds threshold"))

\* GINWinds.declare_outputs
GinDeclare(decls) ==
    Declare(Declare(decls, "U_NOTURB", "m s-1", 1), "V_NOTURB", "m s-1", 1)

\* ---- the inputs of the solar and wind specification
WindLen == 2
\* the first timestamp of the inputs is one second plus a phase
PhaseValues == {0, 1, 2, 3}
RawIndex(phase) ==
    [k \in 1..WindLen |-> TicksPerSecond + phase + (k - 1) * TicksPerSecond]
RawSeries(phase, values) == [index |-> RawIndex(phase), values |-> values]
RollValues == {0, 2, 3, -3, NaN}
HeadingValues == {0, 90, 210}
HeadingOffsetValues == {0, 30}
TasValues == {10000, 13000, -100}
TatValues == {28815, 25000, 0}
GroundVelocityValues == {<<0, 10000>>, <<500, -300>>}
TasCorValues == {None, <<1100>>}
LatValues == {52, NaN}
EphemerisValues == {[altitude |-> 30, azimuth |-> 120], [altitude |-> -10, azimuth |-> 300]}

GinConstants(offset, tascor) ==
    IF tascor = None THEN [GIN_HDG_OFFSET |-> offset]
    ELSE [GIN_HDG_OFFSET |-> offset, GINWIND_TASCOR |-> tascor[1]]

InitGin ==
    /\ pc = "gin_created"
    /\ \E phase \in PhaseValues, roll \in [1..WindLen -> RollValues],
          hdg \in HeadingValues, offset \in HeadingOffsetValues,
          tas \in TasValues, tat \in TatValues,
          vel \in GroundVelocityValues, tascor \in TasCorValues :
          dataset =
              [constants |-> GinConstants(offset, tascor),
               variables |->
                  [VELE_GIN |-> RawSeries(phase, Const(WindLen, vel[1])),
                   VELN_GIN |-> RawSeries(phase, Const(WindLen, vel[2])),
                   HDG_GIN |-> RawSeries(phase, Const(WindLen, hdg)),
                   TAS_RVSM |-> RawSeries(phase, Const(WindLen, tas)),
                   ROLL_GIN |-> RawSeries(phase, roll),
                   TAT_DI_R |-> RawSeries(phase, Const(WindLen, tat))]]
    /\ args = None

InitSolar ==
    /\ pc = "solar_created"
    /\ \E phase \in PhaseValues, lat \in [1..WindLen -> LatValues] :
          dataset =
              [constants |-> [n \in {} |-> None],
               variables |-> [LAT_GIN |-> RawSeries(phase, lat),
                              LON_GIN |-> RawSeries(phase, Const(WindLen, -1))]]
    /\ \E ephemeris \in EphemerisValues : args = [ephemeris |-> ephemeris]

InitWinds ==
    /\ InitGin \/ InitSolar
    /\ d = None
    /\ declarations = NoDeclarations
    /\ outputs = <<>>
    /\ ret = None

\* SolarAngles.declare_outputs
SolarDeclareOutputs ==
    /\ pc = "solar_created"
    /\ declarations' = SolarDeclare(declarations)
    /\ pc' = "solar_declared"
    /\ UNCHANGED <<dataset, d, outputs, args, ret>>

\* SolarAngles.process
SolarProcess ==
    /\ pc = "solar_declared"
    /\ d' = SolarFrame(dataset)
    /\ outputs' = SolarOutputs(d', outputs, args.ephemeris)
    /\ pc' = "solar_processed"
    /\ UNCHANGED <<dataset, declarations, args, ret>>

\* GINWinds.declare_outputs
GinDeclareOutputs ==
    /\ pc = "gin_created"
    /\ declarations' = GinDeclare(declarations)
    /\ pc' = "gin_declared"
    /\ UNCHANGED <<dataset, d, outputs, args, ret>>

\* GINWinds.process
GinProcess ==
    /\ pc = "gin_declared"
    /\ d' = GinFrame(dataset)
    /\ outputs' = GinOutputs(d', outputs)
    /\ pc' = "gin_processed"
    /\ UNCHANGED <<dataset, declarations, args, ret>>

NextWinds ==
    \/ SolarDeclareOutputs
    \/ SolarProcess
    \/ GinDeclareOutputs
    \/ GinProcess

SpecWinds == InitWinds /\ [][NextWinds]_vars

\* ---- claims about SolarAngles and GINWinds

\* the index of the reference input of the module that ran
ReferenceIndex ==
    IF pc = "solar_processed" THEN dataset.variables.LAT_GIN.index
    ELSE dataset.variables.TAS_RVSM.index

\* C16 as stated: the target index that SolarAngles.process or
\* GINWinds.process constructs is a regular one-second grid from the floor
\* of the first raw timestamp to the ceiling of the last, so it starts no
\* later than the first raw sample and ends no earlier than the last.
C16_GridSpansRawInput ==
    pc \in {"solar_processed", "gin_processed"} =>
        LET first == ReferenceIndex[1]
            last  == ReferenceIndex[Len(ReferenceIndex)]
            n     == Len(d.index)
        IN /\ \A k \in 1..(n - 1) : d.index[k + 1] = d.index[k] + TicksPerSecond
           /\ d.index[1] = (first \div TicksPerSecond) * TicksPerSecond
           /\ d.index[n] = ((last + TicksPerSecond - 1) \div TicksPerSecond) * TicksPerSecond
           /\ d.index[1] <= first
           /\ d.index[n] >= last

\* the samples of the GINWinds frame that fly due north in level flight,
\* with a finite airspeed
NorthLevel(k) ==
    /\ DatasetGet(dataset, "GIN_HDG_OFFSET") = 0
    /\ d.HDG_GIN[k] = 0
    /\ d.ROLL_GIN[k] = 0
    /\ ~IsNaN(d.TAS_RVSM[k])
    /\ IsFinite(d.TAS[k])

\* C17 as stated: at heading 0 with no heading offset and zero roll the
\* air vector is purely northward, so U_NOTURB is VELE_GIN and V_NOTURB is
\* VELN_GIN minus the true airspeed; with TAS_RVSM = 100 m/s and ground
\* velocity (0, 100) m/s the wind is (0, 0).
C17_NorthwardAirVector ==
    pc = "gin_processed" =>
        \A k \in 1..Len(d.index) :
            NorthLevel(k) =>
                /\ d.U_NOTURB[k] = d.VELE_GIN[k]
                /\ d.V_NOTURB[k] = NumSub(d.VELN_GIN[k], d.TAS[k])
                /\ (d.TAS_RVSM[k] = 10000 /\ d.VELE_GIN[k] = 0
                        /\ d.VELN_GIN[k] = 10000) =>
                       (d.U_NOTURB[k] = 0 /\ d.V_NOTURB[k] = 0)

\* C18: after GINWinds.process the 'roll exceeds threshold' mask is set at
\* a sample exactly when the absolute roll at that sample is greater than 2
\* degrees, and U_NOTURB and V_NOTURB carry the identical mask.
C18_RollMask ==
    pc = "gin_processed" =>
        LET u == outputs[1]
            v == outputs[2]
        IN /\ u.name = "U_NOTURB" /\ v.name = "V_NOTURB"
           /\ Len(u.masks) = 1 /\ u.masks = v.masks
           /\ u.masks[1].label = "roll exceeds threshold"
           /\ Len(u.masks[1].mask) = Len(d.index)
           /\ \A k \in 1..Len(d.index) :
                 u.masks[1].mask[k] <=>
                     (~IsNaN(d.ROLL_GIN[k])
                         /\ (d.ROLL_GIN[k] > 2 \/ d.ROLL_GIN[k] < -2))

\* a flight with a roll of exactly 2 degrees, which is not masked, and a
\* roll beyond 2 degrees, which is
C18_Witness ==
    /\ pc = "gin_processed"
    /\ \E j, k \in 1..Len(d.index) :
          /\ d.ROLL_GIN[j] = 2 /\ ~outputs[1].masks[1].mask[j]
          /\ d.ROLL_GIN[k] = -3 /\ outputs[2].masks[1].mask[k]

\* ---- claims about ThermistorV1Temperatures.process

\* C19: with a circuit type other than V1, in either case, process of
\* ThermistorV1Temperatures returns normally with no working frame built and
\* no output added, whatever sensors DITSENS and NDTSENS name.
C19_NoOpUnlessV1 ==
    (pc = "thermistor_processed"
        /\ dataset.constants.TH_CIRCUIT_TYPE \notin {"V1", "v1"}) =>
        /\ DOMAIN d = {}
        /\ outputs = <<>>
        /\ ret = None

\* process has returned for a V2 circuit whose deiced housing holds a
\* thermistor, and nothing was built
C19_Witness ==
    /\ pc = "thermistor_processed"
    /\ dataset.constants.TH_CIRCUIT_TYPE = "V2"
    /\ dataset.constants.DITSENS[2] = "Thermistor"
    /\ outputs = <<>>

(***************************************************************************)
(* declare_outputs called repeatedly on a module whose dataset holds only  *)
(* constants.  ret is the list of what each call left: the exception it    *)
(* raised and the outputs declared after it.                               *)
(***************************************************************************)

\* the number of calls of declare_outputs that are followed
DeclareCalls == 2

DeclareSensorValues == {"plate", "Thermistor", "thermistor"}

\* a dataset with no time series
NoVariables == [n \in {} |-> None]

InitDeclare ==
    /\ \/ /\ pc = "nevz_created"
          /\ \E vane \in VaneValues :
                dataset = [constants |-> [VANETYPE |-> vane],
                           variables |-> NoVariables]
       \/ /\ pc = "thermistor_created"
          /\ \E circuit \in CircuitValues, di \in DeclareSensorValues,
                nd \in DeclareSensorValues :
                dataset = [constants |-> ThermistorConstants(circuit, <<di, nd>>),
                           variables |-> NoVariables]
    /\ d = None
    /\ declarations = NoDeclarations
    /\ outputs = <<>>
    /\ args = None
    /\ ret = <<>>

\* Nevzorov.declare_outputs, called on a module whatever was declared before
CallNevzorovDeclareOutputs ==
    /\ pc \in {"nevz_created", "nevz_declared", "nevz_declare_raised"}
    /\ Len(ret) < DeclareCalls
    /\ LET r == NevzDeclareOutputs(dataset, declarations)
       IN /\ declarations' = r.declarations
          /\ pc' = IF r.raised = "none" THEN "nevz_declared" ELSE "nevz_declare_raised"
          /\ ret' = Append(ret, r)
    /\ UNCHANGED <<dataset, d, outputs, args>>

\* ThermistorV1Temperatures.declare_outputs, called on a module whatever was
\* declared before
CallThermistorDeclareOutputs ==
    /\ pc \in {"thermistor_created", "thermistor_declared"}
    /\ Len(ret) < DeclareCalls
    /\ declarations' = ThermistorDeclare(dataset, declarations)
    /\ pc' = "thermistor_declared"
    /\ ret' = Append(ret, [raised |-> "none", declarations |-> declarations'])
    /\ UNCHANGED <<dataset, d, outputs, args>>

NextDeclare == CallNevzorovDeclareOutputs \/ CallThermistorDeclareOutputs

SpecDeclare == InitDeclare /\ [][NextDeclare]_vars

\* ---- claims about declare_outputs

\* C20: every call of declare_outputs of Nevzorov or of
\* ThermistorV1Temperatures on the same constants, with no time series in
\* the dataset, leaves the same outputs declared, with the same units and
\* frequencies, as the first call did.
C20_DeclareIdempotent ==
    /\ \A i \in 1..Len(ret) : ret[i] = ret[1]
    /\ Len(ret) > 0 => declarations = ret[1].declarations

\* declare_outputs was called twice on a thermistor module with a thermistor
\* in the deiced housing, and its two outputs are declared
C20_Witness ==
    /\ pc = "thermistor_declared"
    /\ Len(ret) = 2
    /\ LowerTherm(dataset.constants.DITSENS[2]) = "thermistor"
    /\ {"TAT_DI_R", "IAT_DI_R"} \subseteq DOMAIN declarations
    /\ declarations["TAT_DI_R"] = [units |-> "K", frequency |-> 32]

\* the qualifying runs of the call in args: the groups of consecutive rows
\* of the airborne frame that pass the tests and have at least min_length
\* rows, as sequences of timestamps
QualifyingRuns ==
    LET frame == SlrsFrame(args.wow, args.ps, args.roll)
        slr   == SlrColumn(frame, args.min_length, args.ps_lim, args.roll_mean,
                           args.roll_lim)
        count == SlrCount(slr)
        keys  == {count[i] : i \in {j \in 1..Len(frame) : slr[j] = 1}}
    IN {run \in {SlrGroup(frame, count, key) : key \in keys} :
           Len(run) >= args.min_length}

\* C27 as stated: with max_length >= min_length no segment that slrs
\* returns is longer than max_length one-second samples.
C27_SegmentsAtMostMaxLength ==
    (pc = "slrs_done" /\ args.max_length # None) =>
        \A k \in 1..Len(ret.slrs) : Len(ret.slrs[k]) <= args.max_length[1]

\* C28 as stated: slrs raises only ValueError and only for max_length <
\* min_length, and when max_length is given a qualifying run of at least
\* min_length and fewer than max_length rows is returned whole as one
\* segment.
C28_RaisesOnlyForShortMaxLength ==
    /\ pc = "slrs_raised" =>
          /\ ret.raised = "ValueError"
          /\ args.max_length # None /\ args.max_length[1] < args.min_length
    /\ (pc \in {"slrs_done", "slrs_raised"} /\ args.max_length # None
           /\ args.max_length[1] >= args.min_length) =>
          \A run \in QualifyingRuns :
              Len(run) < args.max_length[1] =>
                  /\ pc = "slrs_done"
                  /\ \E k \in 1..Len(ret.slrs) :
                        /\ ret.slrs[k] # <<>>
                        /\ ret.slrs[k][1] = run[1]
                        /\ ret.slrs[k][Len(ret.slrs[k])] = run[Len(run)]

\* C29 as stated: no index that slrs returns holds a timestamp at which the
\* aircraft is on the ground or at which pressure or roll is undefined.
C29_NoDroppedTimestamps ==
    pc = "slrs_done" =>
        \A k \in 1..Len(ret.slrs) : \A j \in 1..Len(ret.slrs[k]) :
            LET t == ret.slrs[k][j]
            IN /\ args.wow[t] # 1
               /\ ~IsNaN(args.ps[t])
               /\ ~IsNaN(args.roll[t])

\* ---- claims about the outputs of ThermistorV1Temperatures

\* C26 as stated: every output that declare_outputs of
\* ThermistorV1Temperatures declared, for the deiced housing, the non-deiced
\* housing or both, has been passed to add_output when process returns.
C26_DeclaredAreProduced ==
    pc = "thermistor_processed" =>
        \A name \in DOMAIN declarations : HasOutput(name)

(***************************************************************************)
(* ppodd/pod/p_airspeed.py : AirSpeed.  Pressures are in hPa, the Mach     *)
(* number and TASCORR in thousandths, temperatures in hundredths of a      *)
(* kelvin and airspeeds in cm/s.                                           *)
(***************************************************************************)

\* ppodd.utils.constants: 340.29 m/s, 288.15 K and 1013.25 hPa
SPEED_OF_SOUND == 34029
ICAO_STD_TEMP == 28815
ICAO_STD_PRESS == 101325

\* AirSpeed.declare_outputs
AirSpeedDeclare(decls) ==
    Declare(Declare(decls, "IAS_RVSM", "m s-1", 32), "TAS_RVSM", "m s-1", 32)

\* np.sqrt(num / den) in thousandths: undefined for a negative quotient
SqrtRatio(num, den) ==
    IF IsNaN(num) \/ num < 0 THEN NaN ELSE Sqrt(RoundDiv(num * Scale, den) * Scale)

\* AirSpeed.calc_mach: the Mach number of sp_mach, as it comes
AirSpeedCalcMach(frame) ==
    LET sm == SpMach(frame.Q_RVSM, frame.PS_RVSM)
    IN Put(Put(frame, "MACHNO", sm.mach), "MACHNO_FLAG", sm.flag)

\* AirSpeed.calc_ias:
\* SPEED_OF_SOUND * MACHNO * np.sqrt(PS_RVSM / ICAO_STD_PRESS)
CalcIas(frame) ==
    Put(frame, "IAS_RVSM",
        [i \in 1..Len(frame.MACHNO) |->
            LET root == SqrtRatio(NumMul(100, frame.PS_RVSM[i]), ICAO_STD_PRESS)
            IN IF IsNaN(frame.MACHNO[i]) \/ IsNaN(root) THEN NaN
               ELSE RoundDiv(RoundDiv(SPEED_OF_SOUND * frame.MACHNO[i], Scale) * root,
                             Scale)])

\* AirSpeed.calc_tas:
\* TASCORR * SPEED_OF_SOUND * MACHNO * np.sqrt(TAT_DI_R / ICAO_STD_TEMP)
CalcTas(frame, ds) ==
    Put(frame, "TAS_RVSM",
        [i \in 1..Len(frame.MACHNO) |->
            LET root == SqrtRatio(frame.TAT_DI_R[i], ICAO_STD_TEMP)
            IN IF IsNaN(frame.MACHNO[i]) \/ IsNaN(root) THEN NaN
               ELSE RoundDiv(RoundDiv(RoundDiv(DatasetGet(ds, "TASCORR") * SPEED_OF_SOUND,
                                               Scale) * frame.MACHNO[i], Scale) * root,
                             Scale)])

\* AirSpeed.process, lines 66-70, with the deiced true air temperature that
\* the dataset holds
AirSpeedFrame(ds, tat) ==
    CalcTas(CalcIas(AirSpeedCalcMach(
        [PS_RVSM |-> ds.variables.PS_RVSM, Q_RVSM |-> ds.variables.Q_RVSM,
         TAT_DI_R |-> tat])), ds)

\* lines 72-77: IAS_RVSM and TAS_RVSM, each with the Mach flag
AirSpeedOutputs(frame, outs) ==
    AddOutput(AddOutput(outs,
        AddFlag(DecadesVariable("IAS_RVSM", frame.IAS_RVSM), frame.MACHNO_FLAG)),
        AddFlag(DecadesVariable("TAS_RVSM", frame.TAS_RVSM), frame.MACHNO_FLAG))

(***************************************************************************)
(* One flight dataset on which RosemountTemperatures,                      *)
(* ThermistorV1Temperatures, AirSpeed and Nevzorov all run.  pc, d,        *)
(* declarations and ret are records with one field per module; ret holds   *)
(* the names that the module passed to add_output, and outputs is the      *)
(* store of the dataset, which receives the variables of every module.     *)
(* AirSpeed runs once the store holds its input TAT_DI_R.                  *)
(***************************************************************************)

FlightModules == {"rosemount", "thermistor", "airspeed", "nevzorov"}

\* the constants of the flight: the sensor types are those of the
\* thermistor constants
FlightConstants(circuit, sens, vane) ==
    ThermistorConstants(circuit, sens) @@ RosemountConstants @@ NevzConstants(vane)
        @@ [TASCORR |-> 1010]

\* the time series of the flight, all of TempLen samples
FlightVariables ==
    LET nevz == NevzVariables(Const(NevzLen, 1), Const(NevzLen, 0), Const(NevzLen, 10))
    IN [Q_RVSM |-> Const(TempLen, 250), PS_RVSM |-> Const(TempLen, 1000),
        CORCON_di_temp |-> Const(TempLen, 2), CORCON_ndi_temp |-> Const(TempLen, 1),
        CORCON_fast_temp |-> Const(TempLen, 1), CORCON_padding1 |-> Const(TempLen, 2),
        PRTAFT_deiced_temp_flag |-> Const(TempLen, 0)]
       @@ [c \in DOMAIN nevz |-> Const(TempLen, nevz[c][1])]

\* the outcome of every fit of the flight
FlightFitValues == {[raised |-> "none", term |-> 1], [raised |-> "RuntimeError", term |-> 0]}

InitFlight ==
    /\ \E circuit \in CircuitValues, sens \in SensorValues, vane \in VaneValues :
          dataset = [constants |-> FlightConstants(circuit, sens, vane),
                     variables |-> FlightVariables]
    /\ \E fitres \in FlightFitValues :
          args = [fit |-> [ins \in {"twc", "lwc", "lwc1", "lwc2"} |-> fitres],
                  it_therm |-> Const(TempLen, 25000)]
    /\ pc = [m \in FlightModules |-> "created"]
    /\ d = [m \in FlightModules |-> None]
    /\ declarations = [m \in FlightModules |-> NoDeclarations]
    /\ ret = [m \in FlightModules |-> {}]
    /\ outputs = <<>>

\* the names of the variables that a call appended to the store
Added(before, after) == {after[k].name : k \in (Len(before) + 1)..Len(after)}

\* RosemountTemperatures.declare_outputs in the flight
FlightRosemountDeclareOutputs ==
    /\ pc.rosemount = "created"
    /\ declarations' = [declarations EXCEPT !.rosemount = RosemountDeclare(@)]
    /\ pc' = [pc EXCEPT !.rosemount = "declared"]
    /\ UNCHANGED <<dataset, d, outputs, args, ret>>

\* RosemountTemperatures.process in the flight
FlightRosemountProcess ==
    /\ pc.rosemount = "declared"
    /\ LET frame == RosemountFrame(dataset)
       IN /\ d' = [d EXCEPT !.rosemount = frame]
          /\ outputs' = AddOutput(AddOutput(outputs,
                            RosemountVariable(frame, "TAT_ND_R")),
                            RosemountVariable(frame, "TAT_DI_R"))
    /\ ret' = [ret EXCEPT !.rosemount = Added(outputs, outputs')]
    /\ pc' = [pc EXCEPT !.rosemount = "processed"]
    /\ UNCHANGED <<dataset, declarations, args>>

\* ThermistorV1Temperatures.declare_outputs in the flight
FlightThermistorDeclareOutputs ==
    /\ pc.thermistor = "created"
    /\ declarations' = [declarations EXCEPT !.thermistor = ThermistorDeclare(dataset, @)]
    /\ pc' = [pc EXCEPT !.thermistor = "declared"]
    /\ UNCHANGED <<dataset, d, outputs, args, ret>>

\* ThermistorV1Temperatures.process in the flight
FlightThermistorProcess ==
    /\ pc.thermistor = "declared"
    /\ LET r == ThermistorProcess(dataset, [d |-> d.thermistor, outputs |-> outputs],
                                  args.it_therm)
       IN /\ d' = [d EXCEPT !.thermistor = r.d]
          /\ outputs' = r.outputs
    /\ ret' = [ret EXCEPT !.thermistor = Added(outputs, outputs')]
    /\ pc' = [pc EXCEPT !.thermistor = "processed"]
    /\ UNCHANGED <<dataset, declarations, args>>

\* AirSpeed.declare_outputs in the flight
FlightAirSpeedDeclareOutputs ==
    /\ pc.airspeed = "created"
    /\ declarations' = [declarations EXCEPT !.airspeed = AirSpeedDeclare(@)]
    /\ pc' = [pc EXCEPT !.airspeed = "declared"]
    /\ UNCHANGED <<dataset, d, outputs, args, ret>>

\* AirSpeed.process in the flight, on a variable of the store that is named
\* TAT_DI_R
FlightAirSpeedProcess ==
    /\ pc.airspeed = "declared"
    /\ \E k \in 1..Len(outputs) :
          /\ outputs[k].name = "TAT_DI_R"
          /\ LET frame == AirSpeedFrame(dataset, outputs[k].data)
             IN /\ d' = [d EXCEPT !.airspeed = frame]
                /\ outputs' = AirSpeedOutputs(frame, outputs)
    /\ ret' = [ret EXCEPT !.airspeed = Added(outputs, outputs')]
    /\ pc' = [pc EXCEPT !.airspeed = "processed"]
    /\ UNCHANGED <<dataset, declarations, args>>

\* Nevzorov.declare_outputs in the flight
FlightNevzorovDeclareOutputs ==
    /\ pc.nevzorov = "created"
    /\ LET r == NevzDeclareOutputs(dataset, declarations.nevzorov)
       IN /\ declarations' = [declarations EXCEPT !.nevzorov = r.declarations]
          /\ pc' = [pc EXCEPT !.nevzorov =
                       IF r.raised = "none" THEN "declared" ELSE "declare_raised"]
    /\ UNCHANGED <<dataset, d, outputs, args, ret>>

\* Nevzorov.process in the flight
FlightNevzorovProcess ==
    /\ pc.nevzorov = "declared"
    /\ LET r == NevzProcess(dataset, outputs, args.fit)
       IN /\ d' = [d EXCEPT !.nevzorov = r.d]
          /\ dataset' = r.dataset
          /\ outputs' = r.outputs
          /\ pc' = [pc EXCEPT !.nevzorov =
                       IF r.raised = "none" THEN "processed" ELSE "process_raised"]
    /\ ret' = [ret EXCEPT !.nevzorov = Added(outputs, outputs')]
    /\ UNCHANGED <<declarations, args>>

NextFlight ==
    \/ FlightRosemountDeclareOutputs
    \/ FlightRosemountProcess
    \/ FlightThermistorDeclareOutputs
    \/ FlightThermistorProcess
    \/ FlightAirSpeedDeclareOutputs
    \/ FlightAirSpeedProcess
    \/ FlightNevzorovDeclareOutputs
    \/ FlightNevzorovProcess

SpecFlight == InitFlight /\ [][NextFlight]_vars

\* ---- claims about the modules of one flight

\* C21 as stated: whatever DITSENS, NDTSENS, TH_CIRCUIT_TYPE and VANETYPE
\* are, no output name is declared by two modules of the flight and none is
\* passed to add_output by two modules.
C21_OutputNamesUnique ==
    \A m1, m2 \in FlightModules :
        m1 # m2 =>
            /\ DOMAIN declarations[m1] \cap DOMAIN declarations[m2] = {}
            /\ ret[m1] \cap ret[m2] = {}

(***************************************************************************)
(* A module run on a dataset that holds its declared inputs and possibly   *)
(* other keys.  Looking up a key that the dataset does not hold raises     *)
(* KeyError.                                                               *)
(***************************************************************************)

\* Nevzorov.inputs
NevzInputs ==
    NevzSeriesInputs \cup
    {"CLWCIREF", "CLWCVREF", "CLWCICOL", "CLWCVCOL",
     "CTWCIREF", "CTWCVREF", "CTWCICOL", "CTWCVCOL",
     "CALNVTWC", "CALNVLWC1", "CALNVLWC2", "CALNVL"}

\* the calibration tables among ThermistorV1Temperatures.inputs
ThermistorTables ==
    {"TH_DISS_MUL", "TH_RESISTANCE", "TH_DECADES", "TH_CAL_TEMPS",
     "TH_CAL_TEMPS_HI", "TH_CAL_TEMPS_LO", "TH_HIGH_VIN", "TH_LOW_VIN",
     "TH_HIGH_VOUT", "TH_LOW_VOUT"}

\* ThermistorV1Temperatures.inputs
ThermistorInputs ==
    {"RM_RECFAC", "NDTSENS", "DITSENS"} \cup ThermistorTables \cup
    {"CORCON_fast_temp", "CORCON_padding1", "PRTAFT_deiced_temp_flag",
     "PS_RVSM", "Q_RVSM"}

\* the part of a dataset under the given keys
Restrict(ds, keys) ==
    [constants |-> [k \in DOMAIN ds.constants \cap keys |-> ds.constants[k]],
     variables |-> [k \in DOMAIN ds.variables \cap keys |-> ds.variables[k]]]

\* the dataset keys that Nevzorov.declare_outputs looks up (line 297)
NevzDeclareReads == {"VANETYPE"}

\* the dataset keys that ThermistorV1Temperatures.process looks up, in order,
\* up to the first one that is missing: TH_CIRCUIT_TYPE (line 178) and, for a
\* V1 circuit, DITSENS, then NDTSENS unless DITSENS names a thermistor, and
\* with a thermistor the recovery factors and the calibration tables
ThermistorProcessReads(ds) ==
    IF "TH_CIRCUIT_TYPE" \notin Available(ds) THEN {"TH_CIRCUIT_TYPE"}
    ELSE IF ~IsV1Circuit(ds) THEN {"TH_CIRCUIT_TYPE"}
    ELSE IF "DITSENS" \notin Available(ds) THEN {"TH_CIRCUIT_TYPE", "DITSENS"}
    ELSE IF LowerTherm(DatasetGet(ds, "DITSENS")[2]) = "thermistor"
    THEN {"TH_CIRCUIT_TYPE", "DITSENS", "RM_RECFAC"} \cup ThermistorTables
    ELSE IF "NDTSENS" \notin Available(ds)
    THEN {"TH_CIRCUIT_TYPE", "DITSENS", "NDTSENS"}
    ELSE IF LowerTherm(DatasetGet(ds, "NDTSENS")[2]) = "thermistor"
    THEN {"TH_CIRCUIT_TYPE", "DITSENS", "NDTSENS", "RM_RECFAC"} \cup ThermistorTables
    ELSE {"TH_CIRCUIT_TYPE", "DITSENS", "NDTSENS"}

\* ---- the inputs of the dependency specification

\* keys of a flight that may or may not be in the dataset
ExtraKeys == {"VANETYPE", "CALNVLWC", "TH_CIRCUIT_TYPE"}

InitInputs ==
    /\ \E extra \in SUBSET ExtraKeys :
        \/ /\ pc = "nevz_created"
           /\ \E vane \in VaneValues, raw \in NevzRawValues :
                 dataset = Restrict([constants |-> NevzConstants(vane),
                                     variables |-> NevzVariables(Const(NevzLen, raw),
                                                                 Const(NevzLen, 0),
                                                                 Const(NevzLen, 10))],
                                    NevzInputs \cup extra)
           /\ \E fitres \in FlightFitValues :
                 args = [fit |-> [ins \in {"twc", "lwc", "lwc1", "lwc2"} |-> fitres]]
        \/ /\ pc = "thermistor_created"
           /\ \E circuit \in CircuitValues, sens \in SensorValues :
                 dataset = Restrict(
                     [constants |-> ThermistorConstants(circuit, sens)
                                        @@ [k \in ThermistorTables |-> "table"],
                      variables |-> [Q_RVSM |-> Const(TempLen, 250),
                                     PS_RVSM |-> Const(TempLen, 1000),
                                     CORCON_fast_temp |-> Const(TempLen, 1),
                                     CORCON_padding1 |-> Const(TempLen, 2),
                                     PRTAFT_deiced_temp_flag |-> Const(TempLen, 0)]],
                     ThermistorInputs \cup extra)
           /\ \E it \in IndicatedValues : args = [it_therm |-> Const(TempLen, it)]
    /\ d = None
    /\ declarations = NoDeclarations
    /\ outputs = <<>>
    /\ ret = "none"

\* Nevzorov.declare_outputs: the common outputs are declared before
\* VANETYPE is looked up
InputsNevzorovDeclareOutputs ==
    /\ pc = "nevz_created"
    /\ IF NevzDeclareReads \subseteq Available(dataset)
       THEN LET r == NevzDeclareOutputs(dataset, declarations)
            IN /\ declarations' = r.declarations
               /\ pc' = IF r.raised = "none" THEN "nevz_declared"
                        ELSE "nevz_declare_raised"
               /\ ret' = r.raised
       ELSE /\ declarations' = DeclareOutputsCommon(declarations)
            /\ pc' = "nevz_declare_raised"
            /\ ret' = "KeyError"
    /\ UNCHANGED <<dataset, d, outputs, args>>

\* Nevzorov.process: a KeyError keeps the working frame and the outputs of
\* the sensors processed before it
InputsNevzorovProcess ==
    /\ pc = "nevz_declared"
    /\ LET r == NevzProcess(dataset, outputs, args.fit)
       IN /\ d' = r.d
          /\ dataset' = r.dataset
          /\ outputs' = r.outputs
          /\ pc' = IF r.raised = "none" THEN "nevz_processed"
                   ELSE "nevz_process_raised"
          /\ ret' = r.raised
    /\ UNCHANGED <<declarations, args>>

\* ThermistorV1Temperatures.declare_outputs: DITSENS and NDTSENS are inputs
InputsThermistorDeclareOutputs ==
    /\ pc = "thermistor_created"
    /\ declarations' = ThermistorDeclare(dataset, declarations)
    /\ pc' = "thermistor_declared"
    /\ UNCHANGED <<dataset, d, outputs, args, ret>>

\* ThermistorV1Temperatures.process
InputsThermistorProcess ==
    /\ pc = "thermistor_declared"
    /\ IF ThermistorProcessReads(dataset) \subseteq Available(dataset)
       THEN LET r == ThermistorProcess(dataset, [d |-> d, outputs |-> outputs],
                                       args.it_therm)
            IN /\ d' = r.d
               /\ outputs' = r.outputs
               /\ pc' = "thermistor_processed"
               /\ ret' = ret
       ELSE \* the tables are looked up after get_dataframe, calc_mach and
            \* calc_heating_correction (lines 188-190)
            /\ d' = IF (ThermistorProcessReads(dataset) \ ThermistorTables)
                           \subseteq Available(dataset)
                    THEN ThermistorCalcHeatingCorrection(
                             ThermistorCalcMach(ThermistorGetDataframe(dataset)))
                    ELSE d
            /\ pc' = "thermistor_process_raised"
            /\ ret' = "KeyError"
            /\ UNCHANGED outputs
    /\ UNCHANGED <<dataset, declarations, args>>

NextInputs ==
    \/ InputsNevzorovDeclareOutputs
    \/ InputsNevzorovProcess
    \/ InputsThermistorDeclareOutputs
    \/ InputsThermistorProcess

SpecInputs == InitInputs /\ [][NextInputs]_vars

\* ---- claims about declared inputs

\* C22 as stated: a module whose declared inputs are all in the dataset
\* never fails on a missing key, in declare_outputs or in process.
C22_InputsSuffice == ret # "KeyError"

(***************************************************************************)
(* ppodd/utils/utils.py : unwrap_array.  Angles are whole degrees; the     *)
(* series is changed in place and returned.                                *)
(***************************************************************************)

\* ang.diff(): undefined for the first element and next to an undefined one
Diff(ang) ==
    [i \in 1..Len(ang) |-> IF i = 1 THEN NaN ELSE NumSub(ang[i], ang[i - 1])]

\* lines 53-55: the places where the angle jumps by more than 180 degrees
\* and is defined
UnwrapIndices(ang) ==
    LET diffed == Diff(ang)
    IN SortedSeq({i \in 1..Len(ang) :
                     ~IsNaN(diffed[i]) /\ Abs(diffed[i]) > 180 /\ ~IsNaN(ang[i])})

\* a step that always adds a turn
UnwrapStepUp(diff) == 360

\* lines 59-62: a turn is taken off after a jump upwards and added after a
\* jump downwards
UnwrapStep(diff) == IF diff > 0 THEN -360 ELSE 360

\* lines 58-62: the loop over the first k places; every element from the
\* place on is shifted
RECURSIVE UnwrapLoop(_, _, _, _)
UnwrapLoop(ang, diffed, indicies, k) ==
    IF k = 0 THEN ang
    ELSE LET before == UnwrapLoop(ang, diffed, indicies, k - 1)
             i == indicies[k]
         IN [j \in 1..Len(ang) |->
                IF j >= i THEN NumAdd(before[j], UnwrapStep(diffed[i])) ELSE before[j]]

\* unwrap_array(ang)
UnwrapArray(ang) ==
    LET indicies == UnwrapIndices(ang)
    IN UnwrapLoop(ang, Diff(ang), indicies, Len(indicies))

\* ---- the inputs of the unwrap specification
UnwrapLen == 5
AngleValues == {0, 10, 190, 350, NaN}

InitUnwrap ==
    /\ pc = "unwrap_start"
    /\ \E ang \in [1..UnwrapLen -> AngleValues] : args = [ang |-> ang]
    /\ d = args.ang
    /\ dataset = None /\ declarations = None /\ outputs = None /\ ret = None

\* unwrap_array(ang): the series of the caller is changed and returned
CallUnwrapArray ==
    /\ pc = "unwrap_start"
    /\ d' = UnwrapArray(d)
    /\ ret' = d'
    /\ pc' = "unwrap_done"
    /\ UNCHANGED <<dataset, declarations, outputs, args>>

NextUnwrap == CallUnwrapArray

SpecUnwrap == InitUnwrap /\ [][NextUnwrap]_vars

\* ---- claims about unwrap_array

\* C24: for a series of angles in [0, 360) without an undefined value,
\* every element that unwrap_array returns differs from the element it was
\* given by a whole number of turns, and two consecutive returned elements
\* differ by 180 degrees at most.
C24_UnwrapRemovesJumps ==
    (pc = "unwrap_done" /\ \A k \in 1..Len(args.ang) : ~IsNaN(args.ang[k])) =>
        /\ Len(ret) = Len(args.ang)
        /\ \A k \in 1..Len(ret) : (ret[k] - args.ang[k]) % 360 = 0
        /\ \A k \in 2..Len(ret) :
              ret[k] - ret[k - 1] <= 180 /\ ret[k - 1] - ret[k] <= 180

\* a series without undefined values that wraps around twice in the same
\* direction, and one that wraps in both directions
C24_Witness ==
    /\ pc = "unwrap_done"
    /\ \A k \in 1..Len(args.ang) : ~IsNaN(args.ang[k])
    /\ \E k \in 1..Len(ret) : ret[k] = args.ang[k] + 720
    /\ ret[2] = args.ang[2] + 360
    /\ args.ang[2] = 10

\* ---- claims about the corrections of GINWinds

\* C30: after GINWinds.process the airspeed TAS is TAS_RVSM less delta_tas,
\* from the uncorrected TAS_RVSM and TAT_DI_R, times GINWIND_TASCOR (1
\* without that constant), the heading is the aligned HDG_GIN with
\* GIN_HDG_OFFSET added once, and the wind components are built from these
\* (shown by the headings 0 and 90, for a finite TAS).
C30_CorrectionsOnce ==
    pc = "gin_processed" =>
        LET factor  == IF "GINWIND_TASCOR" \in DOMAIN dataset.constants
                       THEN dataset.constants.GINWIND_TASCOR ELSE Scale
            aligned == Onto(dataset.variables.HDG_GIN, d.index, GinLimit)
        IN \A k \in 1..Len(d.index) :
              /\ d.TAS_RVSM[k] = Onto(dataset.variables.TAS_RVSM, d.index, GinLimit)[k]
              /\ d.TAS[k] = CorrectedTas(d.TAS_RVSM[k], d.TAT_DI_R[k], factor)
              /\ d.HDG_GIN[k] = NumAdd(aligned[k], dataset.constants.GIN_HDG_OFFSET)
              /\ (IsFinite(d.TAS[k]) /\ ~IsNaN(d.HDG_GIN[k])
                      /\ d.HDG_GIN[k] % 360 = 0) =>
                     /\ d.U_NOTURB[k] = d.VELE_GIN[k]
                     /\ d.V_NOTURB[k] = NumSub(d.VELN_GIN[k], d.TAS[k])
              /\ (IsFinite(d.TAS[k]) /\ ~IsNaN(d.HDG_GIN[k])
                      /\ d.HDG_GIN[k] % 360 = 90) =>
                     /\ d.U_NOTURB[k] = NumSub(d.VELE_GIN[k], d.TAS[k])
                     /\ d.V_NOTURB[k] = d.VELN_GIN[k]

\* a processed flight with GINWIND_TASCOR = 1.1 and a heading offset: from
\* TAS_RVSM = 100 m/s at 288.15 K the corrected airspeed is 100.85 m/s and
\* TAS is 110.94 m/s
C30_Witness ==
    /\ pc = "gin_processed"
    /\ "GINWIND_TASCOR" \in DOMAIN dataset.constants
    /\ dataset.constants.GIN_HDG_OFFSET = 30
    /\ \E k \in 1..Len(d.index) :
          /\ d.TAS_RVSM[k] = 10000 /\ d.TAT_DI_R[k] = 28815
          /\ d.TAS[k] = 11094
          /\ d.HDG_GIN[k] = 240

====
